---------------------------- MODULE Spec2Model ----------------------------
(***************************************************************************)
(* Harmonic Hunter: the ingest -> normalize -> mode decision -> scoring -> *)
(* aggregation -> baseline -> report pipeline of run_pipeline, and the     *)
(* pure scoring functions it uses.                                         *)
(*                                                                         *)
(* Representation choices, used throughout:                                *)
(*  - a text (column name, phase label) is a sequence of one-character     *)
(*    strings, so that lower-casing, stripping and substring tests are     *)
(*    computed as Python computes them;                                    *)
(*  - Python None for a text is the empty sequence (both are falsy);       *)
(*    None for a number is <<>> and a number v is <<v>>;                   *)
(*  - an instant is an integer number of ticks, TicksPerSecond to the      *)
(*    second, counted from 1899-12-30 00:00:00;                            *)
(*  - a frequency is an integer number of milli-hertz (rounded down);      *)
(*  - a percentage or ratio that is compared with a threshold is kept as   *)
(*    the floor of the value times a fixed scale, which decides every      *)
(*    comparison with a threshold that is a multiple of 1/scale exactly.   *)
(***************************************************************************)
EXTENDS Integers, Sequences, FiniteSets, TLC

-----------------------------------------------------------------------------
(* Text helpers (Python str methods)                                       *)

UpperChars ==
  <<"A","B","C","D","E","F","G","H","I","J","K","L","M","N","O","P","Q","R","S","T","U","V","W","X","Y","Z">>

LowerChars ==
  <<"a","b","c","d","e","f","g","h","i","j","k","l","m","n","o","p","q","r","s","t","u","v","w","x","y","z">>

\* The characters of the model in code-point order (str comparison).
CharOrder ==
  <<" ","(",")","/","0","1","2","3","4","5","6","7","8","9","A","B","C","D","E","F","G","H","I","J","K","L","M","N","O","P","Q","R","S","T","U","V","W","X","Y","Z","_","a","b","c","d","e","f","g","h","i","j","k","l","m","n","o","p","q","r","s","t","u","v","w","x","y","z">>

IndexIn(seq, c) == CHOOSE i \in DOMAIN seq : seq[i] = c

ToLower(c) ==
  IF \E i \in DOMAIN UpperChars : UpperChars[i] = c
  THEN LowerChars[IndexIn(UpperChars, c)] ELSE c

ToUpper(c) ==
  IF \E i \in DOMAIN LowerChars : LowerChars[i] = c
  THEN UpperChars[IndexIn(LowerChars, c)] ELSE c

Lower(s) == [i \in DOMAIN s |-> ToLower(s[i])]

Upper(s) == [i \in DOMAIN s |-> ToUpper(s[i])]

RECURSIVE LStrip(_)
LStrip(s) == IF s # <<>> /\ Head(s) = " " THEN LStrip(Tail(s)) ELSE s

RECURSIVE RStrip(_)
RStrip(s) ==
  IF s # <<>> /\ s[Len(s)] = " " THEN RStrip(SubSeq(s, 1, Len(s) - 1)) ELSE s

Strip(s) == RStrip(LStrip(s))

\* Python `sub in s`
Contains(sub, s) ==
  \E i \in 0 .. (Len(s) - Len(sub)) : SubSeq(s, i + 1, i + Len(sub)) = sub

\* str.replace(sub, "", case=False): every non-overlapping occurrence of sub,
\* compared case-insensitively, removed left to right.
RECURSIVE RemoveAllNoCase(_, _)
RemoveAllNoCase(sub, s) ==
  IF Len(s) < Len(sub) \/ sub = <<>> THEN s
  ELSE IF Lower(SubSeq(s, 1, Len(sub))) = Lower(sub)
       THEN RemoveAllNoCase(sub, SubSeq(s, Len(sub) + 1, Len(s)))
       ELSE <<Head(s)>> \o RemoveAllNoCase(sub, Tail(s))

CharOrd(c) == IndexIn(CharOrder, c)

\* Python str < str
RECURSIVE StrLess(_, _)
StrLess(a, b) ==
  IF b = <<>> THEN FALSE
  ELSE IF a = <<>> THEN TRUE
  ELSE IF Head(a) = Head(b) THEN StrLess(Tail(a), Tail(b))
  ELSE CharOrd(Head(a)) < CharOrd(Head(b))

-----------------------------------------------------------------------------
(* ingest/csv_loader.py: column maps and candidate names                   *)

None == <<>>

ColumnMap(ts, cur, ph) == [timestamp |-> ts, current_a |-> cur, phase |-> ph]

MapNames == {"default", "apc_like", "vertiv_like", "eaton_like"}

KNOWN_MAPS(map_name) ==
  CASE map_name = "default" -> ColumnMap(<<"t","i","m","e","s","t","a","m","p">>, <<"c","u","r","r","e","n","t","_","a">>, <<"p","h","a","s","e">>)
    [] map_name = "apc_like" -> ColumnMap(<<"T","i","m","e">>, <<"C","u","r","r","e","n","t">>, <<"P","h","a","s","e">>)
    [] map_name = "vertiv_like" -> ColumnMap(<<"T","i","m","e","s","t","a","m","p">>, <<"I","(","A",")">>, <<"P","h","a","s","e">>)
    [] map_name = "eaton_like" -> ColumnMap(<<"D","a","t","e","/","T","i","m","e">>, <<"C","u","r","r","e","n","t"," ","(","A",")">>, <<"P","h","a","s","e">>)

TS_CANDIDATES ==
  << <<"t","i","m","e","s","t","a","m","p">>,
     <<"t","i","m","e">>,
     <<"d","a","t","e","t","i","m","e">>,
     <<"d","a","t","e","/","t","i","m","e">>,
     <<"d","a","t","e"," ","t","i","m","e">>,
     <<"d","a","t","e">>,
     <<"t","i","m","e"," ","s","t","a","m","p">>,
     <<"T","i","m","e">>,
     <<"T","i","m","e","s","t","a","m","p">>,
     <<"D","a","t","e","/","T","i","m","e">> >>

PHASE_CANDIDATES ==
  << <<"p","h","a","s","e">>,
     <<"l","e","g">>,
     <<"l","i","n","e">>,
     <<"p","o","l","e">> >>

CURRENT_CANDIDATES ==
  << <<"c","u","r","r","e","n","t","_","a">>,
     <<"c","u","r","r","e","n","t">>,
     <<"i","(","a",")">>,
     <<"i"," ","(","a",")">>,
     <<"a","m","p","s">>,
     <<"a","m","p","e","r","e","s">>,
     <<"a">>,
     <<"C","u","r","r","e","n","t">>,
     <<"C","u","r","r","e","n","t"," ","(","A",")">>,
     <<"I","(","A",")">> >>

WIDE_CURRENT_PATTERNS ==
  << << <<"a">>,
        << <<"c","u","r","r","e","n","t","_","a">>,
           <<"c","u","r","r","e","n","t"," ","a">>,
           <<"i","a">>,
           <<"i","_","a">>,
           <<"i","(","a",")","_","a">>,
           <<"a","m","p","s","_","a">>,
           <<"a"," ","c","u","r","r","e","n","t">> >> >>,
     << <<"b">>,
        << <<"c","u","r","r","e","n","t","_","b">>,
           <<"c","u","r","r","e","n","t"," ","b">>,
           <<"i","b">>,
           <<"i","_","b">>,
           <<"i","(","a",")","_","b">>,
           <<"a","m","p","s","_","b">>,
           <<"b"," ","c","u","r","r","e","n","t">> >> >>,
     << <<"c">>,
        << <<"c","u","r","r","e","n","t","_","c">>,
           <<"c","u","r","r","e","n","t"," ","c">>,
           <<"i","c">>,
           <<"i","_","c">>,
           <<"i","(","a",")","_","c">>,
           <<"a","m","p","s","_","c">>,
           <<"c"," ","c","u","r","r","e","n","t">> >> >> >>

\* df.columns after _clean_cols
_clean_cols(cols) == [i \in DOMAIN cols |-> Strip(cols[i])]

\* key in _lower_map(cols)
LowerMapHas(cols, key) == \E i \in DOMAIN cols : Lower(Strip(cols[i])) = key

\* _lower_map(cols)[key]: a dict comprehension, the last column with that key wins
_lower_map(cols, key) ==
  Strip(cols[CHOOSE i \in DOMAIN cols :
               /\ Lower(Strip(cols[i])) = key
               /\ \A j \in DOMAIN cols : Lower(Strip(cols[j])) = key => j <= i])

\* the candidates of _find_col that are keys of cols_lower
CandidateHits(cols, candidates) ==
  {j \in DOMAIN candidates : LowerMapHas(cols, Lower(Strip(candidates[j])))}

\* the first of `hits`, looked up: the `return cols_lower[key]` of _find_col
FirstHit(cols, candidates, hits) ==
  IF hits = {} THEN None
  ELSE _lower_map(cols, Lower(Strip(candidates[CHOOSE j \in hits : \A k \in hits : j <= k])))

_find_col(cols, candidates) == FirstHit(cols, candidates, CandidateHits(cols, candidates))

\* a variant of _score_col_name that counts exact matches alone
ScoreExactOnly(name, candidates) ==
  10 * Cardinality({j \in DOMAIN candidates :
                      Lower(Strip(name)) = Lower(Strip(candidates[j]))})

RECURSIVE ScoreFrom(_, _, _)
ScoreFrom(n, candidates, j) ==
  IF j > Len(candidates) THEN 0
  ELSE (IF n = Lower(Strip(candidates[j])) THEN 10
        ELSE IF Contains(Lower(Strip(candidates[j])), n) THEN 3 ELSE 0)
       + ScoreFrom(n, candidates, j + 1)

_score_col_name(name, candidates) == ScoreFrom(Lower(Strip(name)), candidates, 1)

\* the first column with the highest score, None when every score is 0
ColScores(cols, candidates) ==
  [i \in DOMAIN cols |-> _score_col_name(cols[i], candidates)]

BestOf(cols, sc) ==
  IF \A i \in DOMAIN cols : sc[i] = 0 THEN None
  ELSE cols[CHOOSE i \in DOMAIN cols :
              /\ \A j \in DOMAIN cols : sc[j] <= sc[i]
              /\ \A j \in DOMAIN cols : sc[j] = sc[i] => i <= j]

_best_match(cols, candidates) == BestOf(cols, ColScores(cols, candidates))

\* Python `a or b` on optional texts
OrElse(a, b) == IF a # None THEN a ELSE b

ResolveRole(cols, candidates) ==
  OrElse(_find_col(cols, candidates), _best_match(cols, candidates))

\* autodetect_map: [ok |-> FALSE] stands for the ValueError "Auto-detect failed"
AutoMap(ts, cur, ph) ==
  IF ts = None \/ cur = None
  THEN [ok |-> FALSE, cmap |-> ColumnMap(None, None, None)]
  ELSE [ok |-> TRUE, cmap |-> ColumnMap(ts, cur, ph)]

autodetect_map(cols) ==
  AutoMap(ResolveRole(cols, TS_CANDIDATES),
          ResolveRole(cols, CURRENT_CANDIDATES),
          ResolveRole(cols, PHASE_CANDIDATES))

-----------------------------------------------------------------------------
(* Numbers                                                                 *)

Abs(x) == IF x < 0 THEN -x ELSE x

RECURSIVE GCD(_, _)
GCD(a, b) == IF b = 0 THEN Abs(a) ELSE GCD(b, a % b)

LCM(a, b) == IF a = 0 \/ b = 0 THEN 0 ELSE (Abs(a) \div GCD(a, b)) * Abs(b)

\* A float that is not a whole number is the exact fraction <<n, d>>, d > 0, in
\* lowest terms.
Frac(n, d) ==
  LET g == GCD(n, d)
      s == IF d < 0 THEN -1 ELSE 1
  IN  IF g = 0 THEN <<0, 1>> ELSE <<s * (n \div g), s * (d \div g)>>

FracAdd(a, b) == Frac(a[1] * b[2] + b[1] * a[2], a[2] * b[2])

FracSub(a, b) == Frac(a[1] * b[2] - b[1] * a[2], a[2] * b[2])

\* a * (k / m)
FracScale(a, k, m) == Frac(a[1] * k, a[2] * m)

\* NaN / NaT / a parsed value
NA == [ok |-> FALSE, v |-> 0]

Val(x) == [ok |-> TRUE, v |-> x]

-----------------------------------------------------------------------------
(* The CSV file as pandas reads it.  A cell is what its text parses to:    *)
(*   "time"  a date/time text, n its instant in ticks;                     *)
(*   "amps"  a number, possibly with a unit suffix or a decimal comma;     *)
(*   "label" any other text, s;                                            *)
(*   "junk"  an empty cell (NaN).                                          *)

TicksPerSecond == 20 * 60

TicksPerDay == 86400 * TicksPerSecond

TimeCell(t) == [k |-> "time", n |-> t, s |-> <<>>]

AmpCell(v) == [k |-> "amps", n |-> v, s |-> <<>>]

LabelCell(s) == [k |-> "label", n |-> 0, s |-> s]

JunkCell == [k |-> "junk", n |-> 0, s |-> <<>>]

Column(rows, j) == [i \in DOMAIN rows |-> rows[i][j]]

ColIndex(cols, name) == CHOOSE j \in DOMAIN cols : cols[j] = name /\ \A k \in DOMAIN cols : cols[k] = name => j <= k

HasCol(cols, name) == \E j \in DOMAIN cols : cols[j] = name

\* pd.to_numeric(errors="coerce") of one cell
to_numeric(cell) == IF cell.k = "amps" THEN Val(cell.n) ELSE NA

\* _coerce_current: strip, decimal comma, unit tokens, then to_numeric
_coerce_current(series) == [i \in DOMAIN series |-> to_numeric(series[i])]

\* pd.to_datetime(errors="coerce") of one cell
to_datetime(cell) == IF cell.k = "time" THEN Val(cell.n) ELSE NA

\* _parse_timestamp: when every value failed to parse and some value is a
\* number, the numbers are Excel serial days since 1899-12-30
_parse_timestamp(series) ==
  LET ts  == [i \in DOMAIN series |-> to_datetime(series[i])]
      num == [i \in DOMAIN series |-> to_numeric(series[i])]
  IN  IF (\A i \in DOMAIN ts : ~ts[i].ok) /\ (\E i \in DOMAIN num : num[i].ok)
      THEN [i \in DOMAIN series |->
              IF num[i].ok THEN Val(num[i].v * TicksPerDay) ELSE NA]
      ELSE ts

RECURSIVE Digits(_)
Digits(n) ==
  LET d == <<"0","1","2","3","4","5","6","7","8","9">>[(n % 10) + 1]
  IN  IF n < 10 THEN <<d>> ELSE Digits(n \div 10) \o <<d>>

\* astype(str) of one cell (the text of an instant is written as its tick count)
AsStr(cell) ==
  CASE cell.k = "label" -> cell.s
    [] cell.k = "junk"  -> <<"n","a","n">>
    [] OTHER            -> Digits(cell.n)

\* A row of the standardized table before dropna
RawRow(ts, ph, cur) == [timestamp |-> ts, phase |-> ph, current_a |-> cur]

\* A row of a table: an instant, a phase label, a current (a fraction)
Row(t, ph, c) == [timestamp |-> t, phase |-> ph, current_a |-> c]

\* dropna(subset=["timestamp", "current_a"])
dropna(raw) ==
  LET kept == SelectSeq(raw, LAMBDA r : r.timestamp.ok /\ r.current_a.ok)
  IN  [i \in DOMAIN kept |->
         Row(kept[i].timestamp.v, kept[i].phase, <<kept[i].current_a.v, 1>>)]

\* sort_values("timestamp"): rows with equal instants keep their order here;
\* pandas leaves it open, and nothing downstream reads the order of ties
sort_values(rows) ==
  LET rank == [i \in DOMAIN rows |->
                 Cardinality({j \in DOMAIN rows :
                    \/ rows[j].timestamp < rows[i].timestamp
                    \/ rows[j].timestamp = rows[i].timestamp /\ j <= i})]
  IN  [k \in DOMAIN rows |-> rows[CHOOSE i \in DOMAIN rows : rank[i] = k]]

-----------------------------------------------------------------------------
(* ingest/csv_loader.py: load_csv                                          *)

\* A file: readable (some delimiter/encoding strategy of _try_read_csv
\* succeeds), its header and its rows of cells.
CsvFile(readable, cols, rows) == [readable |-> readable, cols |-> cols, rows |-> rows]

\* The result of load_csv: a table, or the error raised (with the column list
\* the error message carries, <<>> when it carries none).
Loaded(rows) == [ok |-> TRUE, err |-> "", columns |-> <<>>, rows |-> rows]

Raised(err, columns) == [ok |-> FALSE, err |-> err, columns |-> columns, rows |-> <<>>]

\* found[phase.upper()] = cols_lower[p]: the first pattern of the phase that is a
\* column (lower-cased), None when the phase has no such column
WideColumnOf(cols, patterns) == _find_col(cols, patterns)

\* one entry of `found`: nothing when the phase has no column
WidePair(phase, col) == IF col = None THEN <<>> ELSE << <<Upper(phase), col>> >>

\* the (phase label, column) pairs of _infer_wide_phase_columns, in dict order
RECURSIVE WideFoundFrom(_, _)
WideFoundFrom(cols, k) ==
  IF k > Len(WIDE_CURRENT_PATTERNS) THEN <<>>
  ELSE WidePair(WIDE_CURRENT_PATTERNS[k][1],
                WideColumnOf(cols, WIDE_CURRENT_PATTERNS[k][2]))
       \o WideFoundFrom(cols, k + 1)

\* the concatenation of seqs[lo], ..., seqs[hi]
RECURSIVE ConcatRange(_, _, _)
ConcatRange(seqs, lo, hi) ==
  IF lo > hi THEN <<>>
  ELSE IF lo = hi THEN seqs[lo]
  ELSE LET mid == (lo + hi) \div 2
       IN  ConcatRange(seqs, lo, mid) \o ConcatRange(seqs, mid + 1, hi)

ConcatAll(seqs) == ConcatRange(seqs, 1, Len(seqs))

\* _infer_wide_phase_columns: [found |-> FALSE] is the None result
\* tmp: the rows of one phase column (lines 181-188)
WidePhaseRows(rows, ts, phase, cur) ==
  [i \in DOMAIN rows |-> RawRow(ts[i], phase, cur[i])]

\* pd.concat(out_frames) (line 192)
WideConcat(cols, rows, ts, found) ==
  ConcatAll([k \in DOMAIN found |->
    WidePhaseRows(rows, ts, found[k][1],
                  _coerce_current(Column(rows, ColIndex(cols, found[k][2]))))])

WideTable(cols, rows, ts_col, found) ==
  IF ts_col = None \/ Len(found) < 2
  THEN [found |-> FALSE, rows |-> <<>>]
  ELSE [found |-> TRUE,
        rows  |-> WideConcat(cols, rows,
                    _parse_timestamp(Column(rows, ColIndex(cols, ts_col))), found)]

_infer_wide_phase_columns(cols, rows) ==
  WideTable(cols, rows, ResolveRole(cols, TS_CANDIDATES), WideFoundFrom(cols, 1))

\* out["phase"]: the phase column as text with the word "phase" removed, or "A"
PhaseValues(cols, rows, cmap) ==
  IF cmap.phase # None /\ HasCol(cols, cmap.phase)
  THEN [i \in DOMAIN rows |->
          Strip(RemoveAllNoCase(<<"p","h","a","s","e">>,
                                AsStr(rows[i][ColIndex(cols, cmap.phase)])))]
  ELSE [i \in DOMAIN rows |-> <<"A">>]

\* load_csv after the wide-format attempt: the map-based parsing
\* lines 234-243: out, before dropna
ParsedRows(rows, ts, cur, ph) == [i \in DOMAIN rows |-> RawRow(ts[i], ph[i], cur[i])]

\* lines 248-252: the empty check of the map-based path
NonEmpty(out, cols) == IF out = <<>> THEN Raised("NoValidRows", cols) ELSE Loaded(out)

\* lines 229-255: the parsing under a resolved column map
LoadWithMap(cols, rows, cmap) ==
  IF ~HasCol(cols, cmap.timestamp) \/ ~HasCol(cols, cmap.current_a)
  THEN Raised("MissingColumns", <<>>)
  ELSE NonEmpty(
         sort_values(dropna(ParsedRows(rows,
           _parse_timestamp(Column(rows, ColIndex(cols, cmap.timestamp))),
           _coerce_current(Column(rows, ColIndex(cols, cmap.current_a))),
           PhaseValues(cols, rows, cmap)))),
         cols)

\* lines 218-219: cmap = autodetect_map(df), which may raise
AutoLoad(cols, rows, auto) ==
  IF ~auto.ok THEN Raised("AutoDetectFailed", cols) ELSE LoadWithMap(cols, rows, auto.cmap)

\* load_csv after the wide-format attempt: the map-based parsing
MapBasedLoad(cols, rows, map_name) ==
  IF map_name = "auto" THEN AutoLoad(cols, rows, autodetect_map(cols))
  ELSE IF map_name \notin MapNames THEN Raised("UnknownMap", <<>>)
  ELSE LoadWithMap(cols, rows, KNOWN_MAPS(map_name))

\* lines 207-215: the wide table is returned as it is, with no empty check
WideOrMap(cols, rows, map_name, wide) ==
  IF map_name = "auto" /\ wide.found
  THEN Loaded(sort_values(dropna(wide.rows)))
  ELSE MapBasedLoad(cols, rows, map_name)

LoadFrame(cols, rows, map_name) ==
  WideOrMap(cols, rows, map_name, _infer_wide_phase_columns(cols, rows))

load_csv(file, map_name) ==
  IF ~file.readable THEN Raised("ReadFailure", <<>>)
  ELSE LoadFrame(_clean_cols(file.cols), file.rows, map_name)

-----------------------------------------------------------------------------
(* config.py, ingest/normalizer.py, signal/validity.py                     *)

\* settings.resample_seconds
resample_seconds == 1

\* settings.harmonics
harmonics == <<1, 3, 5, 7, 9, 11, 13>>

\* the width of one bucket of resample(f"{int(resample_seconds)}s"), in ticks
BucketTicks == resample_seconds * TicksPerSecond

BucketOf(t) == t \div BucketTicks

\* the distinct phase labels of a table
PhasesOf(rows) == {rows[i].phase : i \in DOMAIN rows}

\* sorted(labels): ascending str order
RECURSIVE SortedLabels(_)
SortedLabels(S) ==
  IF S = {} THEN <<>>
  ELSE LET m == CHOOSE x \in S : \A y \in S : ~StrLess(y, x)
       IN  <<m>> \o SortedLabels(S \ {m})

\* df[df["phase"] == phase], in table order
RowsOfPhase(rows, phase) == SelectSeq(rows, LAMBDA r : r.phase = phase)

\* fs[lo] + ... + fs[hi]
RECURSIVE FracSumRange(_, _, _)
FracSumRange(fs, lo, hi) ==
  IF lo > hi THEN <<0, 1>>
  ELSE IF lo = hi THEN fs[lo]
  ELSE LET mid == (lo + hi) \div 2
       IN  FracAdd(FracSumRange(fs, lo, mid), FracSumRange(fs, mid + 1, hi))

FracSum(fs) == FracSumRange(fs, 1, Len(fs))

\* resample(rule).mean() of one bucket: NaN for a bucket without readings
MeanVal(tot, n) == Val(Frac(tot[1], tot[2] * n))

MeanOfRows(inb) ==
  IF inb = <<>> THEN NA
  ELSE MeanVal(FracSum([i \in DOMAIN inb |-> inb[i].current_a]), Len(inb))

BucketMean(g, b) == MeanOfRows(SelectSeq(g, LAMBDA r : BucketOf(r.timestamp) = b))

\* a variant of Interpolated that carries the last known value forward
FilledForward(means, i) ==
  IF means[i].ok THEN means[i].v
  ELSE means[CHOOSE j \in 1 .. i : means[j].ok /\ \A k \in j + 1 .. i : ~means[k].ok].v

\* interpolate(limit_direction="both") at position i of a series of means:
\* linear between the nearest known values, the nearest known value outside them
Interpolated(means, i) ==
  IF means[i].ok THEN means[i].v
  ELSE
    LET known == {j \in DOMAIN means : means[j].ok}
        left  == {j \in known : j < i}
        right == {j \in known : j > i}
        l == CHOOSE j \in left : \A k \in left : k <= j
        r == CHOOSE j \in right : \A k \in right : j <= k
    IN  IF left = {} THEN means[r].v
        ELSE IF right = {} THEN means[l].v
        ELSE FracAdd(means[l].v,
                     FracScale(FracSub(means[r].v, means[l].v), i - l, r - l))

\* one phase group of normalize_timeseries: one row per bucket from the bucket
\* of the first reading to the bucket of the last
BucketMeans(g, lo, hi) == [i \in 1 .. (hi - lo + 1) |-> BucketMean(g, lo + i - 1)]

PhaseGrid(phase, lo, means) ==
  [i \in DOMAIN means |-> Row((lo + i - 1) * BucketTicks, phase, Interpolated(means, i))]

NormalizePhase(g, phase) ==
  PhaseGrid(phase, BucketOf(g[1].timestamp),
            BucketMeans(g, BucketOf(g[1].timestamp), BucketOf(g[Len(g)].timestamp)))

\* normalize_timeseries: [ok |-> FALSE] is the ValueError pd.concat raises for
\* an empty list of frames
NormalizeGroups(df, phases) ==
  IF phases = <<>> THEN Raised("NoObjectsToConcatenate", <<>>)
  ELSE Loaded(ConcatAll([k \in DOMAIN phases |->
                NormalizePhase(RowsOfPhase(df, phases[k]), phases[k])]))

NormalizeSorted(df) == NormalizeGroups(df, SortedLabels(PhasesOf(df)))

normalize_timeseries(rows) == NormalizeSorted(sort_values(rows))

\* main._validate_and_clean: the three columns are always present in a
\* normalized table and no value is missing, so what is left is the sort
_validate_and_clean(rows) == sort_values(rows)

\* the k-th smallest of a sequence of integers
KthSmallest(xs, k) ==
  CHOOSE d \in {xs[i] : i \in DOMAIN xs} :
    /\ Cardinality({i \in DOMAIN xs : xs[i] < d}) < k
    /\ Cardinality({i \in DOMAIN xs : xs[i] <= d}) >= k

\* a variant of Median2 that takes the lower of the two middle values
LowerMedian2(xs) == 2 * KthSmallest(xs, (Len(xs) + 1) \div 2)

\* twice the median of a non-empty sequence of integers
Median2(xs) ==
  IF Len(xs) % 2 = 1 THEN 2 * KthSmallest(xs, (Len(xs) + 1) \div 2)
  ELSE KthSmallest(xs, Len(xs) \div 2) + KthSmallest(xs, (Len(xs) \div 2) + 1)

\* estimate_sample_rate, in milli-hertz: 1 / median of the consecutive
\* differences of the sorted instants
RateOfMedian(median2) ==
  IF median2 <= 0 THEN 0 ELSE (1000 * TicksPerSecond * 2) \div median2

Deltas(ts) == [i \in 1 .. (Len(ts) - 1) |-> ts[i + 1].timestamp - ts[i].timestamp]

RateOfSorted(ts) == IF Len(ts) < 3 THEN 0 ELSE RateOfMedian(Median2(Deltas(ts)))

estimate_sample_rate(rows) == RateOfSorted(sort_values(rows))

\* a variant of fft_is_valid that excludes the boundary
FftValidAbove(sample_rate_hz, fundamental_hz) == sample_rate_hz > 20 * fundamental_hz

\* fft_is_valid(sample_rate_hz, fundamental_hz), both in milli-hertz
fft_is_valid(sample_rate_hz, fundamental_hz) == sample_rate_hz >= 20 * fundamental_hz

-----------------------------------------------------------------------------
(* signal/metrics.py.  A signal is a sequence of fractions.  Crest factor  *)
(* and coefficient of variation do not change when every sample is         *)
(* multiplied by the same positive number, so they are computed on the     *)
(* samples brought to a common denominator and divided by their gcd.  A    *)
(* sum of squares or a mean of such samples is <= 1e-12 only when it is 0. *)

\* the least common multiple of the denominators of sig[lo], ..., sig[hi]
RECURSIVE LcmOfDensRange(_, _, _)
LcmOfDensRange(sig, lo, hi) ==
  IF lo > hi THEN 1
  ELSE IF lo = hi THEN sig[lo][2]
  ELSE LET mid == (lo + hi) \div 2
       IN  LCM(LcmOfDensRange(sig, lo, mid), LcmOfDensRange(sig, mid + 1, hi))

LcmOfDens(sig) == LcmOfDensRange(sig, 1, Len(sig))

\* the greatest common divisor of xs[lo], ..., xs[hi]
RECURSIVE GcdRange(_, _, _)
GcdRange(xs, lo, hi) ==
  IF lo > hi THEN 0
  ELSE IF lo = hi THEN Abs(xs[lo])
  ELSE LET mid == (lo + hi) \div 2
       IN  GCD(GcdRange(xs, lo, mid), GcdRange(xs, mid + 1, hi))

GcdOfAll(xs) == GcdRange(xs, 1, Len(xs))

Scaled(sig, D) == [i \in DOMAIN sig |-> sig[i][1] * (D \div sig[i][2])]

Reduce(xs, g) == IF g = 0 THEN xs ELSE [i \in DOMAIN xs |-> xs[i] \div g]

Reduced(xs) == Reduce(xs, GcdOfAll(xs))

ToInts(sig) == Reduced(Scaled(sig, LcmOfDens(sig)))

\* xs[lo] + ... + xs[hi]
RECURSIVE SumRange(_, _, _)
SumRange(xs, lo, hi) ==
  IF lo > hi THEN 0
  ELSE IF lo = hi THEN xs[lo]
  ELSE LET mid == (lo + hi) \div 2
       IN  SumRange(xs, lo, mid) + SumRange(xs, mid + 1, hi)

SumSeq(xs) == SumRange(xs, 1, Len(xs))

SumSq(xs) == SumSeq([i \in DOMAIN xs |-> xs[i] * xs[i]])

MaxAbs(xs) == CHOOSE m \in {Abs(xs[i]) : i \in DOMAIN xs} : \A i \in DOMAIN xs : Abs(xs[i]) <= m

\* (p * 10^k) mod q and floor(p * 10^k / q), digit by digit
RECURSIVE RemPow10(_, _, _)
RemPow10(p, q, k) == IF k = 0 THEN p % q ELSE (RemPow10(p, q, k - 1) * 10) % q

RECURSIVE DivPow10(_, _, _)
DivPow10(p, q, k) ==
  IF k = 0 THEN p \div q
  ELSE 10 * DivPow10(p, q, k - 1) + ((RemPow10(p, q, k - 1) * 10) \div q)

\* floor(sqrt(x)), by bisection on lo <= root < hi
RECURSIVE ISqrtIn(_, _, _)
ISqrtIn(x, lo, hi) ==
  IF hi - lo <= 1 THEN lo
  ELSE LET mid == (lo + hi) \div 2
       IN  IF mid * mid <= x THEN ISqrtIn(x, mid, hi) ELSE ISqrtIn(x, lo, mid)

ISqrt(x) == ISqrtIn(x, 0, 46341)

\* crest_factor in hundredths: peak / rms
CrestOf(peak, n, sumsq) ==
  IF sumsq = 0 THEN 0 ELSE ISqrt(DivPow10(peak * peak * n, sumsq, 4))

CrestOfInts(xs) == CrestOf(MaxAbs(xs), Len(xs), SumSq(xs))

crest_factor(signal) == IF Len(signal) = 0 THEN 0 ELSE CrestOfInts(ToInts(signal))

\* current_variability_percent in tenths of a percent: std / |mean| * 100,
\* std the population standard deviation
VariabilityOf(n, s, sumsq) ==
  IF s = 0 THEN 0 ELSE ISqrt(DivPow10(n * sumsq - s * s, s * s, 6))

VariabilityOfInts(xs) == VariabilityOf(Len(xs), SumSeq(xs), SumSq(xs))

current_variability_percent(signal) ==
  IF Len(signal) = 0 THEN 0 ELSE VariabilityOfInts(ToInts(signal))

\* harmonics.get(h, 0.0) of a spectrum: a function from orders to amplitudes
Get(harms, h) == IF h \in DOMAIN harms THEN harms[h] ELSE 0

RECURSIVE SumSqOver(_, _)
SumSqOver(harms, orders) ==
  IF orders = {} THEN 0
  ELSE LET h == CHOOSE x \in orders : TRUE
       IN  harms[h] * harms[h] + SumSqOver(harms, orders \ {h})

\* thd_percent in tenths of a percent
thd_percent(harms) ==
  LET i1 == Get(harms, 1)
  IN  IF i1 <= 0 THEN 0
      ELSE ISqrt(DivPow10(SumSqOver(harms, {h \in DOMAIN harms : h # 1}), i1 * i1, 6))

\* a variant of triplen_index_percent that sums over every order
TriplenOverAllOrders(harms) ==
  LET i1 == Get(harms, 1)
  IN  IF i1 <= 0 THEN 0
      ELSE ISqrt(DivPow10(SumSqOver(harms, DOMAIN harms), i1 * i1, 6))

\* triplen_index_percent in tenths of a percent
triplen_index_percent(harms) ==
  LET i1 == Get(harms, 1)
  IN  IF i1 <= 0 THEN 0
      ELSE ISqrt(DivPow10(SumSqOver(harms, {h \in DOMAIN harms : h % 3 = 0 /\ h # 0}),
                          i1 * i1, 6))

\* a variant of the 5th-harmonic ratio that divides by 1 when the fundamental
\* is not positive
FifthWithoutGuard(harms) ==
  LET i1 == Get(harms, 1)
  IN  IF i1 <= 0 THEN Get(harms, 5) * 1000 ELSE (Get(harms, 5) * 1000) \div i1

\* main.run_pipeline lines 239-240: the 5th-harmonic ratio in tenths of a percent
fifth_percent(harms) ==
  LET i1 == Get(harms, 1)
  IN  IF i1 <= 0 THEN 0 ELSE (Get(harms, 5) * 1000) \div i1

-----------------------------------------------------------------------------
(* risk/thresholds.py, risk/scoring.py, recommend/rules.py.  THD, triplen, *)
(* 5th-harmonic and variability are in tenths of a percent, crest factor   *)
(* in hundredths.                                                          *)

THD_WARN == 150

THD_CRITICAL == 200

TRIPLEN_WARN == 200

TRIPLEN_CRITICAL == 300

FIFTH_WARN == 120

FIFTH_CRITICAL == 150

CREST_WARN == 250

CREST_CRITICAL == 300

VARIABILITY_WARN == 250

VARIABILITY_CRITICAL == 400

Min(a, b) == IF a <= b THEN a ELSE b

_band(score) ==
  IF score <= 30 THEN "Safe"
  ELSE IF score <= 60 THEN "Monitor"
  ELSE IF score <= 80 THEN "Action Required"
  ELSE "Immediate Risk"

\* a finding: the message template and the metric value formatted into it
Finding(msg, value) == [msg |-> msg, value |-> value]

RiskResult(score, band, findings, top_risks) ==
  [score_0_100 |-> score, band |-> band, findings |-> findings, top_risks |-> top_risks]

\* one metric of a scorer: the points, the findings and the top-risk tags it adds
Tier(value, critical, warn, ptsCritical, ptsWarn, ptsElse, msgCritical, msgWarn, topCritical, topWarn) ==
  IF value >= critical
  THEN [pts |-> ptsCritical, findings |-> <<Finding(msgCritical, value)>>, top |-> <<topCritical>>]
  ELSE IF value >= warn
  THEN [pts |-> ptsWarn, findings |-> <<Finding(msgWarn, value)>>, top |-> <<topWarn>>]
  ELSE [pts |-> ptsElse, findings |-> <<>>, top |-> <<>>]

\* a variant of ThdTier whose thresholds are exclusive
ThdTierExclusive(thd) ==
  IF thd > THD_CRITICAL
  THEN [pts |-> 40, findings |-> <<Finding("THD is critical", thd)>>,
        top |-> <<"High THD -> overheating/nuisance trips">>]
  ELSE IF thd > THD_WARN
  THEN [pts |-> 25, findings |-> <<Finding("THD is elevated", thd)>>,
        top |-> <<"Elevated THD trend">>]
  ELSE [pts |-> 10, findings |-> <<>>, top |-> <<>>]

ThdTier(thd) ==
  Tier(thd, THD_CRITICAL, THD_WARN, 40, 25, 10,
       "THD is critical", "THD is elevated",
       "High THD -> overheating/nuisance trips", "Elevated THD trend")

TriplenTier(triplen) ==
  Tier(triplen, TRIPLEN_CRITICAL, TRIPLEN_WARN, 35, 20, 8,
       "Triplen index is critical", "Triplen index is high",
       "Triplen harmonics -> neutral overheating risk", "Triplen harmonics trending high")

FifthTier(fifth_pct) ==
  Tier(fifth_pct, FIFTH_CRITICAL, FIFTH_WARN, 25, 15, 5,
       "5th harmonic is critical", "5th harmonic is elevated",
       "5th harmonic -> capacitor/UPS stress", "5th harmonic elevated")

CrestTier(crest) ==
  Tier(crest, CREST_CRITICAL, CREST_WARN, 55, 35, 15,
       "Crest factor is critical", "Crest factor is elevated",
       "High crest factor -> pulsed non-linear load risk", "Elevated crest factor trend")

\* a variant of VariabilityTier whose thresholds are exclusive
VariabilityTierExclusive(variability) ==
  IF variability > VARIABILITY_CRITICAL
  THEN [pts |-> 45, findings |-> <<Finding("Current variability is critical", variability)>>,
        top |-> <<"High variability -> harmonic risk signature">>]
  ELSE IF variability > VARIABILITY_WARN
  THEN [pts |-> 25, findings |-> <<Finding("Current variability is elevated", variability)>>,
        top |-> <<"Variability trending high">>]
  ELSE [pts |-> 10, findings |-> <<>>, top |-> <<>>]

VariabilityTier(variability) ==
  Tier(variability, VARIABILITY_CRITICAL, VARIABILITY_WARN, 45, 25, 10,
       "Current variability is critical", "Current variability is elevated",
       "High variability -> harmonic risk signature", "Variability trending high")

\* top[:3]
FirstN(seq, n) == SubSeq(seq, 1, Min(n, Len(seq)))

\* a variant of score_risk_fft that evaluates triplen, 5th, THD in that order
ScoreFftTriplenFirst(thd, triplen, fifth_pct) ==
  LET a == ThdTier(thd)
      b == TriplenTier(triplen)
      c == FifthTier(fifth_pct)
      score == Min(100, a.pts + b.pts + c.pts)
  IN  RiskResult(score, _band(score),
                 b.findings \o c.findings \o a.findings,
                 FirstN(b.top \o c.top \o a.top, 3))

score_risk_fft(thd, triplen, fifth_pct) ==
  LET a == ThdTier(thd)
      b == TriplenTier(triplen)
      c == FifthTier(fifth_pct)
      score == Min(100, a.pts + b.pts + c.pts)
  IN  RiskResult(score, _band(score),
                 a.findings \o b.findings \o c.findings,
                 FirstN(a.top \o b.top \o c.top, 3))

score_risk_trend(crest, variability) ==
  LET a == CrestTier(crest)
      b == VariabilityTier(variability)
      score == Min(100, a.pts + b.pts)
  IN  RiskResult(score, _band(score),
                 a.findings \o b.findings,
                 FirstN(a.top \o b.top, 3))

\* a variant of Advice whose thresholds are exclusive
AdviceExclusive(value, critical, warn, recCritical, recWarn) ==
  IF value > critical THEN <<recCritical>>
  ELSE IF value > warn THEN <<recWarn>>
  ELSE <<>>

\* one metric of a recommender
Advice(value, critical, warn, recCritical, recWarn) ==
  IF value >= critical THEN <<recCritical>>
  ELSE IF value >= warn THEN <<recWarn>>
  ELSE <<>>

recommendations_fft(thd, triplen, fifth_pct) ==
  LET recs ==
        Advice(triplen, 300, 200,
               "Priority: Evaluate active harmonic filtering focused on triplen mitigation",
               "Trend triplen harmonics")
        \o Advice(fifth_pct, 150, 120,
               "Priority: Evaluate detuned capacitor banks / filtering tuned for 5th harmonic",
               "Inspect capacitor bank health and reactive compensation settings")
        \o Advice(thd, 200, 150,
               "Priority: Perform a power quality audit",
               "Monitor THD and thermal loading")
  IN  IF recs = <<>>
      THEN <<"No urgent mitigation required based on thresholds">>
      ELSE recs

recommendations_trend(crest, variability) ==
  LET recs ==
        Advice(crest, 300, 250,
               "Priority: Investigate non-linear load contributions",
               "Crest factor elevated; review load mix and UPS operating mode")
        \o Advice(variability, 400, 250,
               "Priority: Current variability indicates pulsed load behavior",
               "Trend current variability over time")
  IN  IF recs = <<>>
      THEN <<"No urgent mitigation required based on trend indicators">>
      ELSE recs

RECURSIVE DedupeFrom(_, _, _)
DedupeFrom(items, i, out) ==
  IF i > Len(items) THEN out
  ELSE IF \E k \in DOMAIN out : out[k] = items[i]
       THEN DedupeFrom(items, i + 1, out)
       ELSE DedupeFrom(items, i + 1, Append(out, items[i]))

\* a variant of dedupe_preserve_order that keeps the last occurrence of an item
DedupeKeepLast(items) ==
  LET back == DedupeFrom([i \in DOMAIN items |-> items[Len(items) + 1 - i]], 1, <<>>)
  IN  [i \in DOMAIN back |-> back[Len(back) + 1 - i]]

dedupe_preserve_order(items) == DedupeFrom(items, 1, <<>>)

-----------------------------------------------------------------------------
(* main.py: helpers                                                        *)

\* a variant of _band_from_score whose band limits are exclusive
BandBelowLimits(score) ==
  IF score < 30 THEN "Safe"
  ELSE IF score < 60 THEN "Monitor"
  ELSE IF score < 80 THEN "Action Required"
  ELSE "Immediate Risk"

_band_from_score(score) ==
  IF score <= 30 THEN "Safe"
  ELSE IF score <= 60 THEN "Monitor"
  ELSE IF score <= 80 THEN "Action Required"
  ELSE "Immediate Risk"

_exec_verdict(score) ==
  IF score <= 30 THEN "No immediate power-quality risk detected."
  ELSE IF score <= 60 THEN "Early warning indicators detected."
  ELSE "Elevated power-quality risk detected."

\* the sort key of _safe_phase_order: (order.get(str(p).upper(), 99), str(p))
PhaseRank(p) ==
  LET u == Upper(p)
  IN  IF u = <<"A">> THEN 0
      ELSE IF u = <<"B">> THEN 1
      ELSE IF u = <<"C">> THEN 2
      ELSE IF u = <<"N">> THEN 3
      ELSE 99

\* a variant of PhaseKeyLess that compares the ranks alone
PhaseRankLess(p, q) == PhaseRank(p) < PhaseRank(q)

PhaseKeyLess(p, q) ==
  \/ PhaseRank(p) < PhaseRank(q)
  \/ PhaseRank(p) = PhaseRank(q) /\ StrLess(p, q)

\* sorted(phases, key=...): a stable sort by the key
RECURSIVE InsertByKey(_, _)
InsertByKey(sorted, p) ==
  IF sorted = <<>> THEN <<p>>
  ELSE IF ~PhaseKeyLess(p, sorted[Len(sorted)]) THEN Append(sorted, p)
  ELSE Append(InsertByKey(SubSeq(sorted, 1, Len(sorted) - 1), p), sorted[Len(sorted)])

RECURSIVE SafeOrderFrom(_, _, _)
SafeOrderFrom(phases, i, acc) ==
  IF i > Len(phases) THEN acc
  ELSE SafeOrderFrom(phases, i + 1, InsertByKey(acc, phases[i]))

_safe_phase_order(phases) == SafeOrderFrom(phases, 1, <<>>)

\* _safe_phase_order(sorted(df["phase"].astype(str).unique().tolist()))
PhaseList(df) == _safe_phase_order(SortedLabels(PhasesOf(df)))

\* df[df["phase"] == phase]["current_a"].to_numpy()
SignalOf(df, phase) ==
  LET g == RowsOfPhase(df, phase) IN [i \in DOMAIN g |-> g[i].current_a]

\* a variant of RoundHalfEven in which a tie goes up
RoundHalfUp(num, den) == (2 * num + den) \div (2 * den)

\* Python round(): the nearest integer to num / den (den > 0, num >= 0), a tie
\* going to the even neighbour
RoundHalfEven(num, den) ==
  LET q == num \div den
      r == num % den
  IN  IF 2 * r < den THEN q
      ELSE IF 2 * r > den THEN q + 1
      ELSE IF q % 2 = 0 THEN q ELSE q + 1

\* a variant of FacilityScore that adds the scores up without taking their mean
FacilityTotal(scores) == IF scores = <<>> THEN 0 ELSE SumSeq(scores)

\* int(round(float(np.mean(scores)))) if scores else 0
FacilityScore(scores) ==
  IF scores = <<>> THEN 0 ELSE RoundHalfEven(SumSeq(scores), Len(scores))

-----------------------------------------------------------------------------
(* signal/fft_engine.py.  The windowed transform itself is not computed:   *)
(* it is a function `transform` from (signal, sample rate) to a spectrum,  *)
(* fixed for a run, whose values the model draws from SpectrumChoices.     *)

Orders == {harmonics[k] : k \in DOMAIN harmonics}

ZeroSpectrum == [h \in Orders |-> 0]

Spectrum(a1, a3, a5, a7) ==
  [h \in Orders |-> CASE h = 1 -> a1 [] h = 3 -> a3 [] h = 5 -> a5 [] h = 7 -> a7 [] OTHER -> 0]

\* the amplitudes the transform may report, in units of 1/20 of the largest
SpectrumChoices ==
  {Spectrum(0, 0, 0, 0), Spectrum(0, 4, 0, 0), Spectrum(20, 0, 0, 0),
   Spectrum(20, 4, 0, 0), Spectrum(20, 6, 3, 0), Spectrum(20, 0, 3, 3)}

\* minimum number of samples for a transform (fft_engine.py line 23)
MinFftSamples == 32

\* a variant of compute_fft_harmonics that reports a distorted spectrum for a
\* signal too short to transform
HarmonicsOfShortSignal(current, sample_rate_hz, transform) ==
  IF Len(current) < MinFftSamples \/ sample_rate_hz <= 0
  THEN Spectrum(20, 6, 3, 0)
  ELSE transform[<<current, sample_rate_hz>>]

compute_fft_harmonics(current, sample_rate_hz, transform) ==
  IF Len(current) < MinFftSamples \/ sample_rate_hz <= 0
  THEN ZeroSpectrum
  ELSE transform[<<current, sample_rate_hz>>]

\* sr of per_phase_harmonics
EffectiveRate(sample_rate_hz) ==
  IF sample_rate_hz > 0 THEN sample_rate_hz ELSE 1000 \div resample_seconds

per_phase_harmonics(df, sample_rate_hz, transform) ==
  [p \in PhasesOf(df) |->
     compute_fft_harmonics(SignalOf(df, p), EffectiveRate(sample_rate_hz), transform)]

\* the (signal, rate) pairs per_phase_harmonics hands to the transform
TransformInputs(df, sample_rate_hz) ==
  {<<SignalOf(df, p), EffectiveRate(sample_rate_hz)>> :
     p \in {q \in PhasesOf(df) : Len(SignalOf(df, q)) >= MinFftSamples}}

-----------------------------------------------------------------------------
(* main.py: _compute_facility_score                                        *)

\* minimum number of samples for a phase to be scored (main.py lines 132, 223)
MinPhaseSamples == 8

\* a call of a collaborator: the function, the dataset ("primary" or
\* "baseline") and the phase it is about (<<>> when it is about no phase)
Call(fn, ds, phase) == [fn |-> fn, ds |-> ds, phase |-> phase]

\* harms_by_phase.get(phase, {})
HarmsOf(harms_by_phase, phase) ==
  IF phase \in DOMAIN harms_by_phase THEN harms_by_phase[phase] ELSE <<>>

\* lines 138-146: the score of one phase, by the scorer of the mode
PhaseRisk(fft_ok, harms, sig) ==
  IF fft_ok
  THEN score_risk_fft(thd_percent(harms), triplen_index_percent(harms), fifth_percent(harms))
  ELSE score_risk_trend(crest_factor(sig), current_variability_percent(sig))

\* lines 130-148: one pass of the loop; a phase of fewer than 8 samples is skipped
LoopStep(phase, sig, fft_ok, harms, rest) ==
  IF Len(sig) < MinPhaseSamples THEN rest
  ELSE [scores |-> <<PhaseRisk(fft_ok, harms, sig).score_0_100>> \o rest.scores,
        calls  |-> <<Call(IF fft_ok THEN "score_risk_fft" ELSE "score_risk_trend",
                          "baseline", phase)>> \o rest.calls]

\* the loop of _compute_facility_score from phase i on: the scores appended
\* and the scorer called for each phase
RECURSIVE FacilityLoop(_, _, _, _, _)
FacilityLoop(df, phases, i, fft_ok, harms_by_phase) ==
  IF i > Len(phases) THEN [scores |-> <<>>, calls |-> <<>>]
  ELSE LoopStep(phases[i], SignalOf(df, phases[i]), fft_ok,
                HarmsOf(harms_by_phase, phases[i]),
                FacilityLoop(df, phases, i + 1, fft_ok, harms_by_phase))

\* lines 150-151: the rounded mean of the scores, with what was called on the way
FacilityResult(fft_ok, loop) ==
  [facility_score |-> FacilityScore(loop.scores),
   fft_ok |-> fft_ok,
   calls  |-> (IF fft_ok THEN <<Call("per_phase_harmonics", "baseline", <<>>)>> ELSE <<>>)
              \o loop.calls]

\* lines 125-148: the phase loop under the harmonics of the table
FacilityOf(df, fft_ok, harms_by_phase) ==
  FacilityResult(fft_ok, FacilityLoop(df, PhaseList(df), 1, fft_ok, harms_by_phase))

\* line 127: harms_by_phase is computed only when fft_ok
FacilityAtRate(df, sample_rate_hz, fft_ok, transform) ==
  FacilityOf(df, fft_ok,
             IF fft_ok THEN per_phase_harmonics(df, sample_rate_hz, transform) ELSE <<>>)

\* a variant of FacilityWithRate that scores in trend mode whatever the rate
FacilityInTrendMode(df, sample_rate_hz, fundamental, transform) ==
  FacilityAtRate(df, sample_rate_hz, FALSE, transform)

\* line 123: fft_ok = fft_is_valid(sample_rate_hz, fundamental_hz)
FacilityWithRate(df, sample_rate_hz, fundamental, transform) ==
  FacilityAtRate(df, sample_rate_hz, fft_is_valid(sample_rate_hz, fundamental), transform)

_compute_facility_score(df, fundamental, transform) ==
  FacilityWithRate(df, estimate_sample_rate(df), fundamental, transform)

-----------------------------------------------------------------------------
(* The files of a run.  A path stands for the file it names, described by  *)
(*   layout  the header: "long" (timestamp, phase, current_a), "single"    *)
(*           (Time, Current), "wide" (Time, Ia, Ib), "nots" (foo, Current) *)
(*           or "unreadable";                                              *)
(*   step    the ticks between two consecutive readings of a phase;        *)
(*   n, m    the number of readings of phase A and of phase B;             *)
(*   wave, waveB  the shape of the current of phase A and of phase B;      *)
(*   bad     every current cell is unparseable.                            *)

\* the longest run of readings of a phase in a file
LongRun == 32

\* the largest current of a reading, in amperes
PeakAmps == 6

Path(layout, step, n, m, wave, waveB, bad) ==
  [layout |-> layout, step |-> step, n |-> n, m |-> m,
   wave |-> wave, waveB |-> waveB, bad |-> bad]

Waves == {"flat", "ripple", "square", "spike"}

\* the current of reading i of a phase
Wave(w, i) ==
  CASE w = "flat"   -> PeakAmps - 2
    [] w = "ripple" -> IF i % 2 = 1 THEN PeakAmps - 3 ELSE PeakAmps - 1
    [] w = "square" -> IF i % 2 = 1 THEN PeakAmps - 5 ELSE PeakAmps - 3
    [] w = "spike"  -> IF i = 1 THEN PeakAmps ELSE 0

CurrentCell(path, w, i) == IF path.bad THEN JunkCell ELSE AmpCell(Wave(w, i))

Max(a, b) == IF a >= b THEN a ELSE b

LongRows(path) ==
  ConcatAll([i \in 1 .. Max(path.n, path.m) |->
    (IF i <= path.n
     THEN << <<TimeCell((i - 1) * path.step),
               LabelCell(<<"P","h","a","s","e"," ","A">>),
               CurrentCell(path, path.wave, i)>> >>
     ELSE <<>>)
    \o
    (IF i <= path.m
     THEN << <<TimeCell((i - 1) * path.step),
               LabelCell(<<"B">>),
               CurrentCell(path, path.waveB, i)>> >>
     ELSE <<>>)])

SingleRows(path) ==
  [i \in 1 .. path.n |->
     <<TimeCell((i - 1) * path.step), CurrentCell(path, path.wave, i)>>]

WideRows(path) ==
  [i \in 1 .. path.n |->
     <<TimeCell((i - 1) * path.step),
       CurrentCell(path, path.wave, i),
       IF i <= path.m THEN CurrentCell(path, path.waveB, i) ELSE JunkCell>>]

NoTsRows(path) ==
  [i \in 1 .. path.n |-> <<LabelCell(<<"x">>), CurrentCell(path, path.wave, i)>>]

FileAt(path) ==
  CASE path.layout = "long" ->
         CsvFile(TRUE, << <<"t","i","m","e","s","t","a","m","p">>, <<"p","h","a","s","e">>,
                          <<"c","u","r","r","e","n","t","_","a">> >>, LongRows(path))
    [] path.layout = "single" ->
         CsvFile(TRUE, << <<"T","i","m","e">>, <<"C","u","r","r","e","n","t">> >>,
                 SingleRows(path))
    [] path.layout = "wide" ->
         CsvFile(TRUE, << <<"T","i","m","e">>, <<"I","a">>, <<"I","b">> >>, WideRows(path))
    [] path.layout = "nots" ->
         CsvFile(TRUE, << <<"f","o","o">>, <<"C","u","r","r","e","n","t">> >>, NoTsRows(path))
    [] OTHER -> CsvFile(FALSE, <<>>, <<>>)

-----------------------------------------------------------------------------
(* The runs the model explores                                             *)

OneHz == TicksPerSecond

SinglePaths ==
  {Path("single", OneHz, n, 0, w, "flat", FALSE) : n \in {2, 8, 9, LongRun}, w \in Waves}
  \cup {Path("single", 1, LongRun, 0, "flat", "flat", FALSE),
        Path("single", 2 * OneHz, 8, 0, "ripple", "flat", FALSE),
        Path("single", OneHz, 2, 0, "flat", "flat", TRUE)}

LongPaths ==
  {Path("long", OneHz, nm[1], nm[2], ww[1], ww[2], FALSE) :
     nm \in {<<8, 8>>, <<9, 8>>, <<8, 2>>, <<LongRun, LongRun>>, <<LongRun, 8>>},
     ww \in {<<"flat", "flat">>, <<"flat", "ripple">>, <<"spike", "square">>}}

WidePaths ==
  {Path("wide", OneHz, 8, 8, "flat", "square", FALSE),
   Path("wide", OneHz, 9, 2, "spike", "flat", FALSE),
   Path("wide", OneHz, 2, 2, "flat", "flat", TRUE)}

BrokenPaths ==
  {Path("nots", OneHz, 2, 0, "flat", "flat", FALSE),
   Path("unreadable", OneHz, 0, 0, "flat", "flat", FALSE)}

PrimaryPaths == SinglePaths \cup LongPaths \cup WidePaths \cup BrokenPaths

\* baseline_csv: None, or <<path>>
BaselinePaths ==
  {<<>>,
   <<Path("single", OneHz, 8, 0, "flat", "flat", FALSE)>>,
   <<Path("single", OneHz, 9, 0, "spike", "flat", FALSE)>>,
   <<Path("single", OneHz, LongRun, 0, "ripple", "flat", FALSE)>>,
   <<Path("long", OneHz, LongRun, 8, "flat", "ripple", FALSE)>>,
   <<Path("long", OneHz, 8, 8, "flat", "square", FALSE)>>,
   <<Path("wide", OneHz, 2, 2, "flat", "flat", TRUE)>>,
   <<Path("unreadable", OneHz, 0, 0, "flat", "flat", FALSE)>>}

MapChoices == {"auto", "default", "apc_like", "bogus"}

\* settings.fundamental_hz in milli-hertz: the default 60 Hz, and 0.05 Hz, a
\* setting under which the 1 Hz grid of the normalizer is 20 times the fundamental
FundamentalChoices == {60 * 1000, 50}

ReportKinds == {"full", "executive"}

\* the arguments of one call of run_pipeline, with the setting and the
\* behaviour of the chart writer it runs under
Run(path, map, baseline, kind, fundamental, chart) ==
  [csv_path |-> path, map_name |-> map, baseline_csv |-> baseline, report_kind |-> kind,
   fundamental_hz |-> fundamental, chart_fails |-> chart]

\* every file, auto-detected, without a baseline
PlainRuns ==
  {Run(p, "auto", <<>>, "full", f, FALSE) : p \in PrimaryPaths, f \in FundamentalChoices}

\* the vendor maps and an unknown map name
MapRuns ==
  {Run(p, m, <<>>, k, 60 * 1000, FALSE) :
     p \in {Path("long", OneHz, 8, 8, "flat", "ripple", FALSE),
            Path("single", OneHz, 9, 0, "spike", "flat", FALSE),
            Path("wide", OneHz, 8, 8, "flat", "square", FALSE)},
     m \in MapChoices, k \in ReportKinds}

\* runs with a baseline file
BaselineRuns ==
  {Run(p, "auto", b, "full", f, c) :
     p \in {Path("single", OneHz, 8, 0, "flat", "flat", FALSE),
            Path("single", OneHz, LongRun, 0, "ripple", "flat", FALSE),
            Path("long", OneHz, 8, 2, "spike", "square", FALSE),
            Path("single", OneHz, 2, 0, "flat", "flat", FALSE)},
     b \in BaselinePaths \ {<<>>}, f \in FundamentalChoices, c \in BOOLEAN}

Runs == PlainRuns \cup MapRuns \cup BaselineRuns

-----------------------------------------------------------------------------
(* State                                                                   *)

VARIABLES
  csv_path, map_name, baseline_csv, report_kind,   \* the arguments of run_pipeline
  fundamental_hz,                                  \* settings.fundamental_hz
  chart_fails,                                     \* _make_delta_chart raises (I/O)
  transform,                                       \* the transform's values so far
  pc,                                              \* the position in run_pipeline
  loaded,                                          \* the table load_csv returned
  base_df,                                         \* the normalized baseline table
  df, sample_rate_hz, fft_ok, report_mode, phases, harms_by_phase,
  next_phase,                                      \* index of the phase loop
  per_phase_scores, summary_lines, findings_all, top_risks_all, recs_all, images,
  facility_score, band, executive_verdict, top_risks,
  baseline_score, risk_delta, delta_chart_path, change_summary,
  report,                                          \* <<>>, or <<arguments of build_pdf_report>>
  raised,                                          \* <<>>, or <<the error run_pipeline raised>>
  calls,                                           \* the collaborators called so far
  log,                                             \* the lines of run.log
  probe                                            \* a pure function applied to drawn inputs

inputs == <<csv_path, map_name, baseline_csv, report_kind, fundamental_hz, chart_fails>>

mode_vars == <<sample_rate_hz, fft_ok, report_mode, phases>>

loop_vars == <<next_phase, per_phase_scores, summary_lines, findings_all, top_risks_all,
               recs_all, images>>

agg_vars == <<facility_score, band, executive_verdict, top_risks>>

base_vars == <<baseline_score, risk_delta, delta_chart_path, change_summary>>

vars == <<inputs, transform, pc, loaded, base_df, df, mode_vars, harms_by_phase, loop_vars, agg_vars,
          base_vars, report, raised, calls, log, probe>>

\* the locals of run_pipeline before it runs
Fresh ==
  /\ transform = <<>>
  /\ loaded = <<>>
  /\ df = <<>>
  /\ sample_rate_hz = 0
  /\ fft_ok = FALSE
  /\ report_mode = ""
  /\ phases = <<>>
  /\ harms_by_phase = <<>>
  /\ next_phase = 1
  /\ per_phase_scores = <<>>
  /\ summary_lines = <<>>
  /\ findings_all = <<>>
  /\ top_risks_all = <<>>
  /\ recs_all = <<>>
  /\ images = <<>>
  /\ facility_score = 0
  /\ band = ""
  /\ executive_verdict = ""
  /\ top_risks = <<>>
  /\ baseline_score = <<>>
  /\ risk_delta = <<>>
  /\ delta_chart_path = <<>>
  /\ change_summary = <<>>
  /\ report = <<>>
  /\ raised = <<>>
  /\ base_df = <<>>
  /\ calls = <<>>
  /\ log = <<>>
  /\ probe = <<>>

Init ==
  /\ \E run \in Runs :
       /\ csv_path = run.csv_path
       /\ map_name = run.map_name
       /\ baseline_csv = run.baseline_csv
       /\ report_kind = run.report_kind
       /\ fundamental_hz = run.fundamental_hz
       /\ chart_fails = run.chart_fails
  /\ pc = "load"
  /\ Fresh

-----------------------------------------------------------------------------
(* main.py: run_pipeline, step by step                                     *)

Error(err, columns) == [err |-> err, columns |-> columns]

\* a line of the report summary
Line(kind, phase, text, num) == [kind |-> kind, phase |-> phase, text |-> text, num |-> num]

\* a chart image written to out_dir
Image(kind, phase) == [kind |-> kind, phase |-> phase]

\* f"Phase {phase}: {r}" for a top-risk tag r
Tagged(phase, tag) == [phase |-> phase, tag |-> tag]

\* a variant of LoadCsv that goes on to the report when the load fails
LoadCsvThenReport ==
  /\ pc = "load"
  /\ \E r \in {load_csv(FileAt(csv_path), map_name)} :
       IF r.ok
       THEN /\ loaded' = r.rows
            /\ pc' = "normalize"
            /\ raised' = raised
       ELSE /\ loaded' = loaded
            /\ pc' = "report"
            /\ raised' = <<Error(r.err, r.columns)>>
  /\ log' = Append(log, "START run_pipeline")
  /\ UNCHANGED <<inputs, base_df, transform, df, mode_vars, harms_by_phase, loop_vars, agg_vars,
                 base_vars, report, calls, probe>>

\* lines 180-186: load_csv(csv_path, map_name)
LoadCsv ==
  /\ pc = "load"
  /\ \E r \in {load_csv(FileAt(csv_path), map_name)} :
       IF r.ok
       THEN /\ loaded' = r.rows
            /\ pc' = "normalize"
            /\ raised' = raised
       ELSE /\ loaded' = loaded
            /\ pc' = "raised"
            /\ raised' = <<Error(r.err, r.columns)>>
  /\ log' = Append(log, "START run_pipeline")
  /\ UNCHANGED <<inputs, base_df, transform, df, mode_vars, harms_by_phase, loop_vars, agg_vars,
                 base_vars, report, calls, probe>>

\* lines 186-188: normalize_timeseries(...) and _validate_and_clean(df)
Normalize ==
  /\ pc = "normalize"
  /\ \E r \in {normalize_timeseries(loaded)} :
       IF r.ok
       THEN /\ df' = _validate_and_clean(r.rows)
            /\ pc' = "mode"
            /\ raised' = raised
            /\ log' = Append(log, "Loaded+normalized")
       ELSE /\ df' = df
            /\ pc' = "raised"
            /\ raised' = <<Error(r.err, r.columns)>>
            /\ log' = log
  /\ UNCHANGED <<inputs, base_df, transform, loaded, mode_vars, harms_by_phase, loop_vars, agg_vars,
                 base_vars, report, calls, probe>>

ModeLabel(ok) == IF ok THEN "Waveform FFT Mode" ELSE "Trend Risk Mode (Log Cadence)"

\* lines 190-199 and 212-215: the mode decision and the phase list
DecideMode ==
  /\ pc = "mode"
  /\ sample_rate_hz' = estimate_sample_rate(df)
  /\ fft_ok' = fft_is_valid(sample_rate_hz', fundamental_hz)
  /\ report_mode' = ModeLabel(fft_ok')
  /\ phases' = PhaseList(df)
  /\ log' = log \o (IF fft_ok' THEN <<>> ELSE <<"FFT invalid -> using trend mode">>)
                \o <<"Phases">>
  /\ summary_lines' = <<Line("rate", <<>>, "Estimated sampling rate", sample_rate_hz'),
                        Line("mode", <<>>, report_mode', 0)>>
  /\ pc' = "harmonics"
  /\ UNCHANGED <<inputs, base_df, transform, loaded, df, harms_by_phase, next_phase, per_phase_scores,
                 findings_all, top_risks_all, recs_all, images, agg_vars, base_vars, report,
                 raised, calls, probe>>

\* lines 202-206, fft_ok: per_phase_harmonics(df, sample_rate_hz)
ComputeHarmonics ==
  /\ pc = "harmonics"
  /\ fft_ok
  /\ \E tr \in [TransformInputs(df, sample_rate_hz) -> SpectrumChoices] :
       /\ transform' = tr
       /\ harms_by_phase' = per_phase_harmonics(df, sample_rate_hz, tr)
  /\ calls' = Append(calls, Call("per_phase_harmonics", "primary", <<>>))
  /\ log' = Append(log, "Computed harmonics")
  /\ pc' = "phases"
  /\ UNCHANGED <<inputs, base_df, loaded, df, mode_vars, loop_vars, agg_vars, base_vars, report,
                 raised, probe>>

\* a variant of the step below that extracts harmonics whatever the mode
HarmonicsWhateverTheMode ==
  /\ pc = "harmonics"
  /\ ~fft_ok
  /\ harms_by_phase' = [p \in PhasesOf(df) |-> ZeroSpectrum]
  /\ calls' = Append(calls, Call("per_phase_harmonics", "primary", <<>>))
  /\ pc' = "phases"
  /\ UNCHANGED <<inputs, base_df, transform, loaded, df, mode_vars, loop_vars,
                 agg_vars, base_vars, report, raised, log, probe>>

\* lines 202-203, not fft_ok: harms_by_phase stays {}
SkipHarmonics ==
  /\ pc = "harmonics"
  /\ ~fft_ok
  /\ pc' = "phases"
  /\ UNCHANGED <<inputs, base_df, transform, loaded, df, mode_vars, harms_by_phase, loop_vars,
                 agg_vars, base_vars, report, raised, calls, log, probe>>

\* a variant of PhaseSkip that scores the short phase 0
PhaseSkipScoresZero ==
  /\ pc = "phases"
  /\ next_phase <= Len(phases)
  /\ Len(SignalOf(df, phases[next_phase])) < MinPhaseSamples
  /\ log' = Append(log, "Phase skipped (too few samples)")
  /\ next_phase' = next_phase + 1
  /\ per_phase_scores' = Append(per_phase_scores, 0)
  /\ UNCHANGED <<inputs, base_df, transform, pc, loaded, df, mode_vars, harms_by_phase,
                 summary_lines, findings_all, top_risks_all, recs_all,
                 images, agg_vars, base_vars, report, raised, calls, probe>>

\* lines 221-225: a phase with too few samples is skipped
PhaseSkip ==
  /\ pc = "phases"
  /\ next_phase <= Len(phases)
  /\ Len(SignalOf(df, phases[next_phase])) < MinPhaseSamples
  /\ log' = Append(log, "Phase skipped (too few samples)")
  /\ next_phase' = next_phase + 1
  /\ UNCHANGED <<inputs, base_df, transform, pc, loaded, df, mode_vars, harms_by_phase,
                 per_phase_scores, summary_lines, findings_all, top_risks_all, recs_all,
                 images, agg_vars, base_vars, report, raised, calls, probe>>

\* lines 264-267: the results of one phase appended to the run's lists
Accumulate(phase, risk, recs) ==
  /\ per_phase_scores' = Append(per_phase_scores, risk.score_0_100)
  /\ recs_all' = recs_all \o recs
  /\ findings_all' = findings_all \o
       [k \in DOMAIN risk.findings |->
          Line("finding", phase, risk.findings[k].msg, risk.findings[k].value)]
  /\ top_risks_all' = top_risks_all \o
       [k \in DOMAIN risk.top_risks |-> Tagged(phase, risk.top_risks[k])]
  /\ summary_lines' = Append(summary_lines, Line("phase", phase, risk.band, risk.score_0_100))
  /\ next_phase' = next_phase + 1

\* lines 235-253, 264-267: the waveform branch of the loop body
FftPhase(phase, thd, trip, fifth_pct) ==
  /\ Accumulate(phase, score_risk_fft(thd, trip, fifth_pct),
                recommendations_fft(thd, trip, fifth_pct))
  /\ images' = images \o <<Image("timeseries", phase), Image("spectrum", phase)>>
  /\ calls' = calls \o <<Call("plot_current_timeseries", "primary", phase),
                         Call("score_risk_fft", "primary", phase),
                         Call("plot_harmonic_spectrum", "primary", phase)>>

\* lines 236-240: harms, thd, trip and fifth_pct of the phase
FftPhaseOf(phase, harms) ==
  FftPhase(phase, thd_percent(harms), triplen_index_percent(harms), fifth_percent(harms))

\* lines 227-253, 264-267: a phase scored in waveform mode
PhaseScoreFft ==
  /\ pc = "phases"
  /\ next_phase <= Len(phases)
  /\ Len(SignalOf(df, phases[next_phase])) >= MinPhaseSamples
  /\ fft_ok
  /\ FftPhaseOf(phases[next_phase], HarmsOf(harms_by_phase, phases[next_phase]))
  /\ UNCHANGED <<inputs, base_df, transform, pc, loaded, df, mode_vars, harms_by_phase, agg_vars,
                 base_vars, report, raised, log, probe>>

\* lines 255-267: the trend branch of the loop body
TrendPhase(phase, cf, var) ==
  /\ Accumulate(phase, score_risk_trend(cf, var), recommendations_trend(cf, var))
  /\ images' = Append(images, Image("timeseries", phase))
  /\ calls' = calls \o <<Call("plot_current_timeseries", "primary", phase),
                         Call("score_risk_trend", "primary", phase)>>

\* lines 256-257: cf and var of the phase signal
TrendPhaseOf(phase, sig) ==
  TrendPhase(phase, crest_factor(sig), current_variability_percent(sig))

\* lines 227-233, 255-267: a phase scored in trend mode
PhaseScoreTrend ==
  /\ pc = "phases"
  /\ next_phase <= Len(phases)
  /\ Len(SignalOf(df, phases[next_phase])) >= MinPhaseSamples
  /\ ~fft_ok
  /\ TrendPhaseOf(phases[next_phase], SignalOf(df, phases[next_phase]))
  /\ UNCHANGED <<inputs, base_df, transform, pc, loaded, df, mode_vars, harms_by_phase, agg_vars,
                 base_vars, report, raised, log, probe>>

\* lines 272-289: facility aggregation
Aggregate ==
  /\ pc = "phases"
  /\ next_phase > Len(phases)
  /\ facility_score' = FacilityScore(per_phase_scores)
  /\ band' = _band_from_score(facility_score')
  /\ executive_verdict' = _exec_verdict(facility_score')
  /\ recs_all' = dedupe_preserve_order(recs_all)
  /\ top_risks' = FirstN(dedupe_preserve_order(top_risks_all), 4)
  /\ summary_lines' =
       <<Line("facility", <<>>, band', facility_score')>>
       \o summary_lines
       \o FirstN(findings_all, IF report_kind = "full" THEN 18 ELSE 6)
  /\ pc' = "baseline"
  /\ UNCHANGED <<inputs, base_df, transform, loaded, df, mode_vars, harms_by_phase, next_phase,
                 per_phase_scores, findings_all, top_risks_all, images, base_vars, report,
                 raised, calls, log, probe>>

\* line 299, baseline_csv is None: the baseline block is not entered
BaselineNone ==
  /\ pc = "baseline"
  /\ baseline_csv = <<>>
  /\ pc' = "report"
  /\ UNCHANGED <<inputs, base_df, transform, loaded, df, mode_vars, harms_by_phase, loop_vars,
                 agg_vars, base_vars, report, raised, calls, log, probe>>

\* lines 301-302: the baseline table, or the error raised on the way to it
BaselineClean(n) == IF ~n.ok THEN n ELSE Loaded(_validate_and_clean(n.rows))

BaselineNormalized(l) == IF ~l.ok THEN l ELSE BaselineClean(normalize_timeseries(l.rows))

BaselineTable(path) == BaselineNormalized(load_csv(FileAt(path), map_name))

\* a variant of the step below without the try/except: the error of the
\* baseline load leaves run_pipeline
BaselineLoadRaises ==
  /\ pc = "baseline"
  /\ baseline_csv # <<>>
  /\ \E t \in {BaselineTable(baseline_csv[1])} :
       /\ ~t.ok
       /\ raised' = <<Error(t.err, t.columns)>>
  /\ pc' = "raised"
  /\ UNCHANGED <<inputs, base_df, transform, loaded, df, mode_vars, harms_by_phase,
                 loop_vars, agg_vars, base_vars, report, calls, log, probe>>

\* lines 301-302 raise, lines 320-322 catch: nothing was assigned
BaselineLoadFails ==
  /\ pc = "baseline"
  /\ baseline_csv # <<>>
  /\ ~BaselineTable(baseline_csv[1]).ok
  /\ log' = Append(log, "Baseline failed")
  /\ pc' = "report"
  /\ UNCHANGED <<inputs, base_df, transform, loaded, df, mode_vars, harms_by_phase, loop_vars,
                 agg_vars, base_vars, report, raised, calls, probe>>

\* lines 301-302 succeed: base_df is the normalized baseline table
BaselineLoaded ==
  /\ pc = "baseline"
  /\ baseline_csv # <<>>
  /\ \E t \in {BaselineTable(baseline_csv[1])} :
       /\ t.ok
       /\ base_df' = t.rows
  /\ pc' = "baseline_score"
  /\ UNCHANGED <<inputs, transform, loaded, df, mode_vars, harms_by_phase, loop_vars,
                 agg_vars, base_vars, report, raised, calls, log, probe>>

\* lines 311-316
ChangeSummary(base, current) ==
  [kind |-> IF current - base > 0 THEN "increased"
            ELSE IF current - base < 0 THEN "decreased" ELSE "unchanged",
   baseline_score |-> base, facility_score |-> current, risk_delta |-> current - base]

\* the transform inputs of the baseline table (none in trend mode)
TransformInputsAt(table, rate, fundamental) ==
  IF fft_is_valid(rate, fundamental) THEN TransformInputs(table, rate) ELSE {}

BaselineTransformInputs(table) ==
  TransformInputsAt(table, estimate_sample_rate(table), fundamental_hz)

\* lines 305-318 after the score: the fields assigned, in order, until
\* _make_delta_chart raises
BaselineAssign(r) ==
  /\ baseline_score' = <<r.facility_score>>
  /\ risk_delta' = <<facility_score - r.facility_score>>
  /\ delta_chart_path' = <<"risk_delta.png">>
  /\ calls' = calls \o r.calls \o <<Call("_make_delta_chart", "baseline", <<>>)>>
  /\ IF chart_fails
     THEN /\ change_summary' = change_summary
          /\ log' = Append(log, "Baseline failed")
     ELSE /\ change_summary' = <<ChangeSummary(r.facility_score, facility_score)>>
          /\ log' = Append(log, "Baseline ok")

\* a variant of the step below that scores the baseline table in the mode of
\* the primary table
BaselineScoredInPrimaryMode ==
  /\ pc = "baseline_score"
  /\ \E tr \in [(IF fft_ok THEN TransformInputs(base_df, estimate_sample_rate(base_df))
                  ELSE {}) -> SpectrumChoices] :
       /\ \A k \in DOMAIN tr \cap DOMAIN transform : tr[k] = transform[k]
       /\ transform' = tr @@ transform
       /\ BaselineAssign(FacilityAtRate(base_df, estimate_sample_rate(base_df), fft_ok, tr))
  /\ pc' = "report"
  /\ UNCHANGED <<inputs, base_df, loaded, df, mode_vars, harms_by_phase, loop_vars, agg_vars, report,
                 raised, probe>>

\* lines 305-318, and lines 320-322 when _make_delta_chart raises: the
\* assignments made before the exception stay
BaselineScored ==
  /\ pc = "baseline_score"
  /\ \E tr \in [BaselineTransformInputs(base_df) -> SpectrumChoices] :
       /\ \A k \in DOMAIN tr \cap DOMAIN transform : tr[k] = transform[k]
       /\ transform' = tr @@ transform
       /\ BaselineAssign(_compute_facility_score(base_df, fundamental_hz, tr))
  /\ pc' = "report"
  /\ UNCHANGED <<inputs, base_df, loaded, df, mode_vars, harms_by_phase, loop_vars, agg_vars, report,
                 raised, probe>>

\* lines 327-348: the arguments handed to build_pdf_report
ReportArgs ==
  [out_pdf |-> "harmonic_hunter_report.pdf",
   report_mode |-> report_mode,
   risk_score |-> facility_score,
   risk_band |-> band,
   baseline_score |-> baseline_score,
   risk_delta |-> risk_delta,
   change_summary |-> change_summary,
   executive_verdict |-> executive_verdict,
   key_observations |->
     IF top_risks # <<>> THEN top_risks
     ELSE <<Tagged(<<>>, "No critical risk indicators identified.")>>,
   recommendations |-> FirstN(recs_all, 10),
   summary_lines |-> summary_lines,
   images |-> IF report_kind = "full" THEN images ELSE FirstN(images, 3),
   delta_chart_path |-> delta_chart_path,
   report_kind |-> report_kind]

BuildReport ==
  /\ pc = "report"
  /\ report' = <<ReportArgs>>
  /\ calls' = Append(calls, Call("build_pdf_report", "primary", <<>>))
  /\ log' = Append(log, "DONE")
  /\ pc' = "done"
  /\ UNCHANGED <<inputs, base_df, transform, loaded, df, mode_vars, harms_by_phase, loop_vars,
                 agg_vars, base_vars, raised, probe>>

Next ==
  \/ LoadCsv
  \/ Normalize
  \/ DecideMode
  \/ ComputeHarmonics
  \/ SkipHarmonics
  \/ PhaseSkip
  \/ PhaseScoreFft
  \/ PhaseScoreTrend
  \/ Aggregate
  \/ BaselineNone
  \/ BaselineLoadFails
  \/ BaselineLoaded
  \/ BaselineScored
  \/ BuildReport

Spec == Init /\ [][Next]_vars


-----------------------------------------------------------------------------
(* Properties of run_pipeline                                              *)

\* the positions of the calls of fn on dataset ds
CallsOf(fn, ds) == {k \in DOMAIN calls : calls[k].fn = fn /\ calls[k].ds = ds}

\* the phase loop is over
AfterLoop == pc \in {"baseline", "baseline_score", "report", "done"}

\* the sampling rate of the readings of a file as written, in milli-hertz
RawRate(path) == (1000 * TicksPerSecond) \div path.step

\* the phases the loop has scored so far, in order
ScoredPhases ==
  SelectSeq(SubSeq(phases, 1, next_phase - 1),
            LAMBDA p : Len(SignalOf(df, p)) >= MinPhaseSamples)

\* the except branch of the baseline block has run
BaselineFailed == \E k \in DOMAIN log : log[k] = "Baseline failed"

\* C1: a single-phase file of at least 32 readings written at 20 times the
\* fundamental or faster is analysed in Waveform FFT Mode: fft_ok is true,
\* per_phase_harmonics is called and every scored phase is scored by
\* score_risk_fft.
C1_FastSinglePhaseIsWaveformMode ==
  (/\ AfterLoop
   /\ csv_path.layout = "single"
   /\ ~csv_path.bad
   /\ csv_path.n >= 32
   /\ RawRate(csv_path) >= 20 * fundamental_hz)
  => /\ fft_ok
     /\ report_mode = "Waveform FFT Mode"
     /\ CallsOf("per_phase_harmonics", "primary") # {}
     /\ CallsOf("score_risk_trend", "primary") = {}
     /\ Cardinality(CallsOf("score_risk_fft", "primary")) = Len(per_phase_scores)

\* C2: while fft_ok is false no harmonics are extracted for the primary
\* table, the spectra map stays empty and every scored phase is scored by
\* score_risk_trend from its crest factor and variability; a baseline table
\* whose rate is not valid for FFT is scored without harmonics too.
C2_TrendModeSkipsHarmonics ==
  /\ ~fft_ok =>
       /\ CallsOf("per_phase_harmonics", "primary") = {}
       /\ CallsOf("score_risk_fft", "primary") = {}
       /\ CallsOf("plot_harmonic_spectrum", "primary") = {}
       /\ harms_by_phase = <<>>
       /\ Cardinality(CallsOf("score_risk_trend", "primary")) = Len(per_phase_scores)
       /\ Len(ScoredPhases) = Len(per_phase_scores)
       /\ \A k \in DOMAIN per_phase_scores :
            per_phase_scores[k] =
              score_risk_trend(crest_factor(SignalOf(df, ScoredPhases[k])),
                               current_variability_percent(SignalOf(df, ScoredPhases[k]))
                              ).score_0_100
  /\ (/\ pc \in {"report", "done"}
      /\ base_df # <<>>
      /\ ~fft_is_valid(estimate_sample_rate(base_df), fundamental_hz))
     => /\ CallsOf("per_phase_harmonics", "baseline") = {}
        /\ CallsOf("score_risk_fft", "baseline") = {}

\* C2 witness: a run in trend mode that scored a phase and a baseline
C2_TrendRunScored ==
  /\ pc = "done"
  /\ ~fft_ok
  /\ per_phase_scores # <<>>
  /\ CallsOf("score_risk_trend", "baseline") # {}

\* a step of the baseline block stays in run_pipeline and leaves the results
\* of the primary data as they are
BaselineStepKeepsPrimary ==
  pc \in {"baseline", "baseline_score"} =>
    /\ pc' \in {"baseline_score", "report"}
    /\ raised' = <<>>
    /\ UNCHANGED <<agg_vars, recs_all, summary_lines, findings_all, top_risks_all,
                   per_phase_scores, images>>

\* C3: a failure of the baseline block never leaves run_pipeline: the block
\* ends at the report step with nothing raised and with the facility score,
\* band, verdict, findings, top risks and recommendations as the primary
\* data alone determined them, and the report is built from them.
C3_BaselineFailureIsIsolated ==
  /\ [][BaselineStepKeepsPrimary]_vars
  /\ [](pc = "report" => ENABLED BuildReport)
  /\ []((pc = "done" /\ BaselineFailed) =>
          /\ raised = <<>>
          /\ CallsOf("build_pdf_report", "primary") # {}
          /\ report # <<>>
          /\ report[1].risk_score = FacilityScore(per_phase_scores)
          /\ report[1].risk_score =
               _compute_facility_score(df, fundamental_hz, transform).facility_score
          /\ report[1].risk_band = _band_from_score(report[1].risk_score)
          /\ report[1].executive_verdict = _exec_verdict(report[1].risk_score)
          /\ report[1].summary_lines = summary_lines
          /\ report[1].recommendations = FirstN(recs_all, 10))

\* C3 witness: a report built after the baseline file could not be loaded
C3_ReportAfterBaselineFailure ==
  /\ pc = "done"
  /\ BaselineFailed
  /\ CallsOf("_make_delta_chart", "baseline") = {}
  /\ report # <<>>
  /\ per_phase_scores # <<>>

\* C4: after a failure at any step of the baseline block, the chart writer
\* included, baseline_score, risk_delta, change_summary and delta_chart_path
\* handed to the report are all None.
C4_FailedBaselineLeavesNoFields ==
  (pc = "done" /\ BaselineFailed)
  => /\ report[1].baseline_score = None
     /\ report[1].risk_delta = None
     /\ report[1].change_summary = None
     /\ report[1].delta_chart_path = None

\* C5: when every phase has fewer than 8 samples the run ends with facility
\* score 0 and a report that differs, in band, verdict or key observations,
\* from the report of data scored Safe without findings.
C5_NoScorablePhasesIsFlagged ==
  (pc = "done" /\ phases # <<>> /\ per_phase_scores = <<>>)
  => /\ report[1].risk_score = 0
     /\ \/ report[1].risk_band # "Safe"
        \/ report[1].executive_verdict # "No immediate power-quality risk detected."
        \/ report[1].key_observations #
             <<Tagged(<<>>, "No critical risk indicators identified.")>>

\* C6: load_csv never returns an empty table: when no row keeps both a
\* timestamp and a current it raises NoValidRows with the column list.
C6_LoadNeverReturnsEmpty ==
  /\ pc = "normalize" => loaded # <<>>
  /\ (raised # <<>> /\ raised[1].err = "NoValidRows")
     => raised[1].columns = _clean_cols(FileAt(csv_path).cols)

\* f is an integer nearest to sum / n, and the even one when two are nearest
NearestTiesToEven(f, sum, n) ==
  /\ 2 * Abs(n * f - sum) <= n
  /\ 2 * Abs(n * f - sum) = n => f % 2 = 0

\* the phases of the table with fewer than 8 samples
ShortPhases == {p \in PhasesOf(df) : Len(SignalOf(df, p)) < MinPhaseSamples}

\* the loop is at a phase with fewer than 8 samples
AtShortPhase ==
  /\ pc = "phases"
  /\ next_phase <= Len(phases)
  /\ phases[next_phase] \in ShortPhases

\* a pass of the loop over a short phase appends nothing to the run's lists
ShortPhaseAddsNothing ==
  AtShortPhase =>
    UNCHANGED <<per_phase_scores, recs_all, findings_all, top_risks_all, images,
                summary_lines, calls>>

\* C11: the facility score is the mean of the scores of exactly the phases
\* with at least 8 samples, rounded to the nearest integer with a tie going
\* to the even neighbour (0 when no phase is scored); a phase with fewer than
\* 8 samples adds no score, finding, top risk, recommendation or chart image.
C11_FacilityScoreIsRoundedMean ==
  /\ [][ShortPhaseAddsNothing]_vars
  /\ [](AfterLoop =>
          /\ Len(per_phase_scores) = Cardinality(PhasesOf(df) \ ShortPhases)
          /\ ScoredPhases = SelectSeq(phases, LAMBDA p : p \notin ShortPhases)
          /\ \A k \in DOMAIN per_phase_scores :
               per_phase_scores[k] =
                 PhaseRisk(fft_ok, HarmsOf(harms_by_phase, ScoredPhases[k]),
                           SignalOf(df, ScoredPhases[k])).score_0_100
          /\ IF per_phase_scores = <<>>
             THEN facility_score = 0
             ELSE NearestTiesToEven(facility_score, SumSeq(per_phase_scores),
                                    Len(per_phase_scores))
          /\ \A k \in DOMAIN images : images[k].phase \notin ShortPhases
          /\ \A k \in DOMAIN findings_all : findings_all[k].phase \notin ShortPhases
          /\ \A k \in DOMAIN top_risks_all : top_risks_all[k].phase \notin ShortPhases
          /\ \A k \in CallsOf("plot_current_timeseries", "primary")
                    \cup CallsOf("plot_harmonic_spectrum", "primary") :
               calls[k].phase \notin ShortPhases)

\* C11 witness: two phases scored 25 and 60, a mean of 42.5, give 42
C11_TieRoundsToEven ==
  /\ pc = "done"
  /\ per_phase_scores = <<25, 60>>
  /\ facility_score = 42
  /\ report[1].risk_score = 42

\* C11 witness of the exclusion: a run that scored one phase and skipped another
C11_ShortPhaseLeftOut ==
  /\ pc = "done"
  /\ ShortPhases # {}
  /\ Len(per_phase_scores) = 1

\* the baseline block has assigned baseline_score
BaselineWasScored == pc \in {"report", "done"} /\ baseline_score # None

\* C12: _compute_facility_score gives a table the facility score and the mode
\* the primary path of run_pipeline gives it; so a baseline table equal to the
\* primary table has the primary's score and a risk_delta of 0, and risk_delta
\* is always facility_score - baseline_score.
C12_BaselineScoreMatchesPrimaryPath ==
  /\ pc \in {"baseline", "baseline_score", "report", "done"} =>
       /\ _compute_facility_score(df, fundamental_hz, transform).facility_score
            = facility_score
       /\ _compute_facility_score(df, fundamental_hz, transform).fft_ok = fft_ok
  /\ BaselineWasScored =>
       /\ risk_delta = <<facility_score - baseline_score[1]>>
       /\ baseline_score[1]
            = _compute_facility_score(base_df, fundamental_hz, transform).facility_score
       /\ base_df = df => (baseline_score[1] = facility_score /\ risk_delta = <<0>>)
       /\ baseline_csv = <<csv_path>> => risk_delta = <<0>>

\* C12 witness: a waveform-mode run whose baseline file is the primary file,
\* scored from a spectrum with harmonics in it
C12_SameFileHasNoDelta ==
  /\ pc = "done"
  /\ baseline_csv = <<csv_path>>
  /\ fft_ok
  /\ transform # <<>>
  /\ facility_score > 23
  /\ baseline_score = <<facility_score>>
  /\ risk_delta = <<0>>

\* the errors of load_csv that end a run
LoadErrors == {"ReadFailure", "UnknownMap", "MissingColumns", "AutoDetectFailed", "NoValidRows"}

\* load_csv raised on the primary file
PrimaryLoadFailed == raised # <<>> /\ raised[1].err \in LoadErrors

\* once the load has failed the run does nothing more
NothingAfterLoadFailure == PrimaryLoadFailed => UNCHANGED vars

\* C15: when load_csv fails on the primary file run_pipeline raises at once:
\* no chart image is written, build_pdf_report is not called, and nothing
\* runs after the error.
C15_LoadFailureLeavesNoArtifact ==
  /\ [][NothingAfterLoadFailure]_vars
  /\ [](PrimaryLoadFailed =>
          /\ pc = "raised"
          /\ ~ENABLED Next
          /\ images = <<>>
          /\ report = <<>>
          /\ CallsOf("plot_current_timeseries", "primary") = {}
          /\ CallsOf("plot_harmonic_spectrum", "primary") = {}
          /\ CallsOf("build_pdf_report", "primary") = {}
          /\ calls = <<>>)

\* C15 witness: a run that ended on AutoDetectFailed with the columns found
C15_RunEndedOnAutoDetectFailure ==
  /\ pc = "raised"
  /\ raised = <<Error("AutoDetectFailed", _clean_cols(FileAt(csv_path).cols))>>
  /\ report = <<>>

\* C18: on the table normalize_timeseries returns, of one phase or more with
\* at least 3 grid points each, estimate_sample_rate gives the rate of the
\* grid, 1 / resample_seconds, whatever the number of phases.
C18_NormalizedTableHasGridRate ==
  (/\ pc \in {"harmonics", "phases", "baseline", "baseline_score", "report", "done"}
   /\ PhasesOf(df) # {}
   /\ \A p \in PhasesOf(df) : Len(SignalOf(df, p)) >= 3)
  => /\ sample_rate_hz = 1000 \div resample_seconds
     /\ estimate_sample_rate(df) = 1000 \div resample_seconds

\* the scorer of a mode
ScorerOf(ok) == IF ok THEN "score_risk_fft" ELSE "score_risk_trend"

\* fft_ok is assigned by the mode decision and by no other step
ModeDecidedOnce == pc # "mode" => fft_ok' = fft_ok

\* the mode of the baseline table, from its own estimated rate
BaselineMode == fft_is_valid(estimate_sample_rate(base_df), fundamental_hz)

\* C13: the phases of one table are all scored by the same function, the one
\* of the mode fft_is_valid decided once for that table: the primary table's
\* by fft_ok, the baseline table's by the mode of its own estimated rate,
\* whatever the mode of the other table.
C13_OneModePerDataset ==
  /\ [][ModeDecidedOnce]_vars
  /\ [](/\ CallsOf(ScorerOf(~fft_ok), "primary") = {}
        /\ Cardinality(CallsOf(ScorerOf(fft_ok), "primary")) = Len(per_phase_scores)
        /\ (pc \notin {"load", "normalize", "mode", "raised"})
             => fft_ok = fft_is_valid(estimate_sample_rate(df), fundamental_hz)
        /\ BaselineWasScored =>
             /\ CallsOf(ScorerOf(~BaselineMode), "baseline") = {}
             /\ Cardinality(CallsOf(ScorerOf(BaselineMode), "baseline"))
                  = Cardinality({p \in PhasesOf(base_df) :
                                  Len(SignalOf(base_df, p)) >= MinPhaseSamples}))

\* C13 witness: a primary table scored in waveform mode next to a baseline
\* table, of two phases, scored in trend mode
C13_BaselineInItsOwnMode ==
  /\ pc = "done"
  /\ fft_ok
  /\ ~BaselineMode
  /\ CallsOf("score_risk_fft", "primary") # {}
  /\ Cardinality(CallsOf("score_risk_trend", "baseline")) = 2

-----------------------------------------------------------------------------
(* The scorers, the facility mean and the band functions applied to drawn  *)
(* inputs.  A metric is drawn around each threshold of thresholds.py, in   *)
(* the units of the metrics above (tenths of a percent, hundredths for the *)
(* crest factor); a list of scores is drawn from the scores the scorers    *)
(* return.                                                                 *)

\* the largest metric value drawn
MetricMax == 1000

\* the longest list of per-phase scores drawn
MaxPhases == 2

Around(t) == {t - 1, t, t + 1}

ThdInputs == {-1, 0, MetricMax} \cup Around(150) \cup Around(200)

TriplenInputs == {0, MetricMax} \cup Around(200) \cup Around(300)

FifthInputs == {0, MetricMax} \cup Around(120) \cup Around(150)

CrestInputs == {0, 100, MetricMax} \cup Around(250) \cup Around(300)

VariabilityInputs == {0, MetricMax} \cup Around(250) \cup Around(400)

\* the scores score_risk_fft and score_risk_trend return on those inputs
ScoreChoices ==
  {score_risk_fft(a, b, c).score_0_100 :
     a \in ThdInputs, b \in TriplenInputs, c \in FifthInputs}
  \cup {score_risk_trend(a, b).score_0_100 : a \in CrestInputs, b \in VariabilityInputs}

ScoreLists == UNION {[1 .. n -> ScoreChoices] : n \in 0 .. MaxPhases}

Applied(fn, args, out) == [fn |-> fn, args |-> args, out |-> out]

ScoreInit ==
  /\ csv_path = Path("single", OneHz, 8, 0, "flat", "flat", FALSE)
  /\ map_name = "auto"
  /\ baseline_csv = <<>>
  /\ report_kind = "full"
  /\ fundamental_hz = 60 * 1000
  /\ chart_fails = FALSE
  /\ pc = "apply"
  /\ Fresh

Unapplied ==
  UNCHANGED <<inputs, base_df, transform, loaded, df, mode_vars, harms_by_phase, loop_vars,
              agg_vars, base_vars, report, raised, calls, log>>

ApplyFft ==
  /\ pc = "apply"
  /\ \E thd \in ThdInputs, triplen \in TriplenInputs, fifth_pct \in FifthInputs :
       probe' = <<Applied("score_risk_fft", <<thd, triplen, fifth_pct>>,
                          score_risk_fft(thd, triplen, fifth_pct))>>
  /\ pc' = "applied"
  /\ Unapplied

ApplyTrend ==
  /\ pc = "apply"
  /\ \E crest \in CrestInputs, variability \in VariabilityInputs :
       probe' = <<Applied("score_risk_trend", <<crest, variability>>,
                          score_risk_trend(crest, variability))>>
  /\ pc' = "applied"
  /\ Unapplied

\* main.py lines 272 and 150: the facility score of a list of scores
ApplyFacility ==
  /\ pc = "apply"
  /\ \E scores \in ScoreLists :
       probe' = <<Applied("facility_score", scores, FacilityScore(scores))>>
  /\ pc' = "applied"
  /\ Unapplied

ApplyBand ==
  /\ pc = "apply"
  /\ \E score \in 0 .. 100 :
       probe' = <<Applied("band", score,
                          [risk |-> _band(score), facility |-> _band_from_score(score)])>>
  /\ pc' = "applied"
  /\ Unapplied

\* spectra over the configured orders, and the empty dict of
\* harms_by_phase.get(phase, {})
DrawnSpectra ==
  {[Spectrum(a1, a3, a5, a7) EXCEPT ![9] = a9] :
     a1 \in {-1, 0, 20}, a3 \in {0, 4, 6}, a5 \in {0, 3, 25}, a7 \in {0, 3}, a9 \in {0, 2}}
  \cup {<<>>}

\* main.py lines 236-242: the metrics of a spectrum and their score
ApplyHarmonics ==
  /\ pc = "apply"
  /\ \E harms \in DrawnSpectra :
       probe' = <<Applied("harmonic_metrics", harms,
                          [thd |-> thd_percent(harms),
                           triplen |-> triplen_index_percent(harms),
                           fifth_pct |-> fifth_percent(harms),
                           risk |-> score_risk_fft(thd_percent(harms),
                                                   triplen_index_percent(harms),
                                                   fifth_percent(harms))])>>
  /\ pc' = "applied"
  /\ Unapplied

\* the longest signal drawn
MaxSamples == 3

\* signals of signed samples, whole and fractional
DrawnSignals ==
  UNION {[1 .. n -> {<<-3, 1>>, <<-1, 1>>, <<0, 1>>, <<1, 2>>, <<1, 1>>, <<3, 1>>}] :
           n \in 0 .. MaxSamples}

\* main.py lines 227-228: crest factor and variability of a signal
ApplySignal ==
  /\ pc = "apply"
  /\ \E sig \in DrawnSignals :
       probe' = <<Applied("signal_metrics", sig,
                          [crest |-> crest_factor(sig),
                           variability |-> current_variability_percent(sig)])>>
  /\ pc' = "applied"
  /\ Unapplied

\* main.py lines 242-243: the score and the recommendations of one phase in
\* waveform mode
ApplyAdviseFft ==
  /\ pc = "apply"
  /\ \E thd \in ThdInputs, triplen \in TriplenInputs, fifth_pct \in FifthInputs :
       probe' = <<Applied("advise_fft", <<thd, triplen, fifth_pct>>,
                          [risk |-> score_risk_fft(thd, triplen, fifth_pct),
                           recs |-> recommendations_fft(thd, triplen, fifth_pct)])>>
  /\ pc' = "applied"
  /\ Unapplied

\* main.py lines 259-260: the same in trend mode
ApplyAdviseTrend ==
  /\ pc = "apply"
  /\ \E crest \in CrestInputs, variability \in VariabilityInputs :
       probe' = <<Applied("advise_trend", <<crest, variability>>,
                          [risk |-> score_risk_trend(crest, variability),
                           recs |-> recommendations_trend(crest, variability)])>>
  /\ pc' = "applied"
  /\ Unapplied

\* the most phases whose recommendations are collected
MaxAdvised == 2

\* per-phase metrics below, at the warn and at the critical threshold
FftPoints ==
  {<<thd, triplen, fifth_pct>> : thd \in {0, THD_WARN, THD_CRITICAL},
                                 triplen \in {0, TRIPLEN_WARN, TRIPLEN_CRITICAL},
                                 fifth_pct \in {0, FIFTH_WARN, FIFTH_CRITICAL}}

TrendPoints ==
  {<<crest, variability>> : crest \in {0, CREST_WARN, CREST_CRITICAL},
                            variability \in {0, VARIABILITY_WARN, VARIABILITY_CRITICAL}}

\* recs of one phase (lines 243, 260)
RecsOf(waveform, m) ==
  IF waveform THEN recommendations_fft(m[1], m[2], m[3]) ELSE recommendations_trend(m[1], m[2])

\* recs_all.extend(recs) over the phases in order (line 265)
RECURSIVE RecsOfAll(_, _, _)
RecsOfAll(waveform, ms, i) ==
  IF i > Len(ms) THEN <<>> ELSE RecsOf(waveform, ms[i]) \o RecsOfAll(waveform, ms, i + 1)

\* lines 265, 281 and 340: the recommendations of the phases collected,
\* de-duplicated and handed to the report
ApplyCollect ==
  /\ pc = "apply"
  /\ \E ok \in BOOLEAN :
       \E ms \in UNION {[1 .. n -> IF ok THEN FftPoints ELSE TrendPoints] :
                          n \in 0 .. MaxAdvised} :
         probe' = <<Applied("collect_recs", [waveform |-> ok, metrics |-> ms],
                            [per_phase |-> [k \in DOMAIN ms |-> RecsOf(ok, ms[k])],
                             recs_all |-> RecsOfAll(ok, ms, 1),
                             deduped |-> dedupe_preserve_order(RecsOfAll(ok, ms, 1)),
                             twice |-> dedupe_preserve_order(
                                         dedupe_preserve_order(RecsOfAll(ok, ms, 1))),
                             handed |-> FirstN(dedupe_preserve_order(RecsOfAll(ok, ms, 1)),
                                               10)])>>
  /\ pc' = "applied"
  /\ Unapplied

ScoreNext ==
  \/ ApplyAdviseFft
  \/ ApplyAdviseTrend
  \/ ApplyCollect
  \/ ApplyHarmonics
  \/ ApplySignal
  \/ ApplyFft
  \/ ApplyTrend
  \/ ApplyFacility
  \/ ApplyBand

SpecScore == ScoreInit /\ [][ScoreNext]_vars


-----------------------------------------------------------------------------
(* Properties of the scorers, under SpecScore                              *)

AppliedIs(fn) == probe # <<>> /\ probe[1].fn = fn

\* C7: score_risk_fft returns min(100, p_thd + p_trip + p_fifth): p_thd is 40
\* from 20 % THD, 25 from 15 %, else 10; p_trip is 35 from 30 %, 20 from 20 %,
\* else 8; p_fifth is 25 from 15 %, 15 from 12 %, else 5; each threshold is
\* inclusive.
C7_FftScoreTable ==
  AppliedIs("score_risk_fft") =>
    LET thd == probe[1].args[1]
        triplen == probe[1].args[2]
        fifth_pct == probe[1].args[3]
        p_thd == IF thd >= 200 THEN 40 ELSE IF thd >= 150 THEN 25 ELSE 10
        p_trip == IF triplen >= 300 THEN 35 ELSE IF triplen >= 200 THEN 20 ELSE 8
        p_fifth == IF fifth_pct >= 150 THEN 25 ELSE IF fifth_pct >= 120 THEN 15 ELSE 5
    IN  probe[1].out.score_0_100 = Min(100, p_thd + p_trip + p_fifth)

\* C7 witness: every metric exactly at its warning threshold
C7_FftAtWarnThresholds ==
  /\ AppliedIs("score_risk_fft")
  /\ probe[1].args = <<150, 200, 120>>
  /\ probe[1].out.score_0_100 = 60

\* C8: score_risk_trend returns min(100, p_crest + p_var): p_crest is 55 from
\* a crest factor of 3.0, 35 from 2.5, else 15; p_var is 45 from 40 %
\* variability, 25 from 25 %, else 10; each threshold is inclusive.
C8_TrendScoreTable ==
  AppliedIs("score_risk_trend") =>
    LET crest == probe[1].args[1]
        variability == probe[1].args[2]
        p_crest == IF crest >= 300 THEN 55 ELSE IF crest >= 250 THEN 35 ELSE 15
        p_var == IF variability >= 400 THEN 45 ELSE IF variability >= 250 THEN 25 ELSE 10
    IN  probe[1].out.score_0_100 = Min(100, p_crest + p_var)

\* C8 witness: the crest factor at its warning threshold, the variability at
\* its critical threshold
C8_TrendAtThresholds ==
  /\ AppliedIs("score_risk_trend")
  /\ probe[1].args = <<250, 400>>
  /\ probe[1].out.score_0_100 = 80

\* C9: the score of score_risk_fft and of score_risk_trend is an integer in
\* 0..100, and so is the facility score of any list of such scores, the empty
\* list included.
C9_ScoresWithinRange ==
  /\ (AppliedIs("score_risk_fft") \/ AppliedIs("score_risk_trend"))
     => probe[1].out.score_0_100 \in 0 .. 100
  /\ AppliedIs("facility_score") => probe[1].out \in 0 .. 100

\* C9 witness: the facility score of phases that all score 100
C9_FacilityOfFullScores ==
  /\ AppliedIs("facility_score")
  /\ Len(probe[1].args) = MaxPhases
  /\ \A k \in DOMAIN probe[1].args : probe[1].args[k] = 100
  /\ probe[1].out = 100

\* the band the specification gives a score
BandOf(score) ==
  IF score <= 30 THEN "Safe"
  ELSE IF score <= 60 THEN "Monitor"
  ELSE IF score <= 80 THEN "Action Required"
  ELSE "Immediate Risk"

\* C10: for every score in 0..100, _band and _band_from_score both give Safe
\* up to 30, Monitor from 31 to 60, Action Required from 61 to 80 and
\* Immediate Risk above 80, and the band of a RiskResult is the band of its
\* score.
C10_BandIsFunctionOfScore ==
  /\ AppliedIs("band") =>
       /\ probe[1].out.risk = BandOf(probe[1].args)
       /\ probe[1].out.facility = BandOf(probe[1].args)
       /\ probe[1].out.risk = probe[1].out.facility
       /\ probe[1].args \in {0, 30} => probe[1].out.facility = "Safe"
       /\ probe[1].args = 60 => probe[1].out.facility = "Monitor"
       /\ probe[1].args = 80 => probe[1].out.facility = "Action Required"
       /\ probe[1].args = 81 => probe[1].out.facility = "Immediate Risk"
  /\ (AppliedIs("score_risk_fft") \/ AppliedIs("score_risk_trend"))
     => probe[1].out.band = BandOf(probe[1].out.score_0_100)

\* C10 witness: a score of exactly 80
C10_BandAtEighty ==
  /\ AppliedIs("band")
  /\ probe[1].args = 80
  /\ probe[1].out.risk = "Action Required"
  /\ probe[1].out.facility = "Action Required"

-----------------------------------------------------------------------------
(* load_csv, the rate estimate, the validity rule and the phase order       *)
(* applied to drawn inputs.  A header is drawn from the column names below, *)
(* in their order; the cells of a column are instants, labels or currents   *)
(* by its name.                                                            *)

\* the number of rows of a drawn file
FileRows == 2

\* the most columns of a drawn file
MaxColumns == 4

ColumnNames ==
  << <<"T","i","m","e">>, <<"w","h","e","n">>, <<"C","u","r","r","e","n","t">>,
     <<"f","o","o">>, <<"P","h","a","s","e">>, <<"I","a">>, <<"I","b">>, <<"I","c">> >>

\* the names at the positions S, in order
HeaderOf(S) ==
  [k \in 1 .. Cardinality(S) |->
     ColumnNames[CHOOSE i \in S : Cardinality({j \in S : j <= i}) = k]]

Headers ==
  {HeaderOf(S) : S \in {T \in SUBSET DOMAIN ColumnNames :
                          Cardinality(T) \in 1 .. MaxColumns}}

\* the cell of row i under a column; with gaps, the first current of column
\* Current and the last of column Ib are empty
CellUnder(name, i, gaps) ==
  IF name \in {<<"T","i","m","e">>, <<"w","h","e","n">>} THEN TimeCell((i - 1) * OneHz)
  ELSE IF name = <<"P","h","a","s","e">> THEN LabelCell(<<"B">>)
  ELSE IF gaps /\ name = <<"C","u","r","r","e","n","t">> /\ i = 1 THEN JunkCell
  ELSE IF gaps /\ name = <<"I","b">> /\ i = FileRows THEN JunkCell
  ELSE AmpCell(i)

DrawnFile(cols, gaps) ==
  CsvFile(TRUE, cols,
          [i \in 1 .. FileRows |-> [j \in DOMAIN cols |-> CellUnder(cols[j], i, gaps)]])

\* settings.default_phase: the default "A", and another label
DefaultPhases == {<<"A">>, <<"L","1">>}

\* the info lines of load_csv (lines 202, 210, 220)
LoadInfo(file, map) ==
  <<"Loading CSV">>
  \o (IF ~file.readable \/ map # "auto" THEN <<>>
      ELSE IF _infer_wide_phase_columns(_clean_cols(file.cols), file.rows).found
      THEN <<"Detected wide per-phase current columns">>
      ELSE IF autodetect_map(_clean_cols(file.cols)).ok
      THEN <<"Auto-detected columns">>
      ELSE <<>>)

ApplyInit ==
  /\ csv_path = Path("single", OneHz, 8, 0, "flat", "flat", FALSE)
  /\ map_name = "auto"
  /\ baseline_csv = <<>>
  /\ report_kind = "full"
  /\ fundamental_hz = 60 * 1000
  /\ chart_fails = FALSE
  /\ pc = "apply"
  /\ Fresh

Unused ==
  UNCHANGED <<inputs, base_df, transform, loaded, df, mode_vars, harms_by_phase, loop_vars,
              agg_vars, base_vars, report, raised, calls>>

\* load_csv(path, map_name) on a drawn file, under a drawn settings.default_phase
ApplyLoad ==
  /\ pc = "apply"
  /\ \E cols \in Headers, gaps \in BOOLEAN, map \in {"auto", "apc_like"},
        default_phase \in DefaultPhases :
       /\ probe' = <<Applied("load_csv",
                             [file |-> DrawnFile(cols, gaps), map_name |-> map,
                              default_phase |-> default_phase],
                             load_csv(DrawnFile(cols, gaps), map))>>
       /\ log' = LoadInfo(DrawnFile(cols, gaps), map)
  /\ pc' = "applied"
  /\ Unused

\* the longest table of instants drawn
MaxStamps == 4

\* instants half a second apart and more
Instants == {0, OneHz \div 2, OneHz, 2 * OneHz}

StampTables ==
  UNION {[1 .. n -> {Row(t, <<"A">>, <<1, 1>>) : t \in Instants}] : n \in 0 .. MaxStamps}

\* fundamentals in milli-hertz, and rates around 20 times each
Fundamentals == FundamentalChoices \cup {50 * 1000}

Rates == {0} \cup UNION {Around(20 * f) : f \in Fundamentals}

\* estimate_sample_rate(df) on a drawn table
ApplyRate ==
  /\ pc = "apply"
  /\ \E table \in StampTables :
       probe' = <<Applied("estimate_sample_rate", table, estimate_sample_rate(table))>>
  /\ pc' = "applied"
  /\ log' = log
  /\ Unused

\* fft_is_valid(sample_rate_hz, fundamental_hz) on drawn rates
ApplyValid ==
  /\ pc = "apply"
  /\ \E rate \in Rates, fundamental \in Fundamentals :
       probe' = <<Applied("fft_is_valid", <<rate, fundamental>>,
                          fft_is_valid(rate, fundamental))>>
  /\ pc' = "applied"
  /\ log' = log
  /\ Unused

\* the longest list of phase labels drawn
MaxLabels == 3

PhaseLabels ==
  {<<"A">>, <<"B">>, <<"C">>, <<"N">>, <<"n">>, <<"L","1">>, <<"L","2">>}

\* lists of distinct labels, in every order
LabelLists ==
  UNION {{s \in [1 .. n -> PhaseLabels] : \A i, j \in 1 .. n : s[i] = s[j] => i = j} :
           n \in 0 .. MaxLabels}

\* _safe_phase_order(phases) on a drawn list of labels
ApplyOrder ==
  /\ pc = "apply"
  /\ \E labels \in LabelLists :
       probe' = <<Applied("_safe_phase_order", labels, _safe_phase_order(labels))>>
  /\ pc' = "applied"
  /\ log' = log
  /\ Unused

\* the most columns of a header drawn for column resolution
MaxDetectColumns == 3

DetectNames ==
  {<<"T","i","m","e">>, <<"D","a","t","e">>, <<"L","o","g","T","i","m","e">>,
   <<"w","h","e","n">>, <<"C","u","r","r","e","n","t">>, <<"I","a">>,
   <<"P","h","a","s","e">>, <<"f","o","o">>}

\* headers of distinct names, in every order
DetectHeaders ==
  UNION {{s \in [1 .. n -> DetectNames] : \A i, j \in 1 .. n : s[i] = s[j] => i = j} :
           n \in 1 .. MaxDetectColumns}

\* the candidate list of a role of autodetect_map
Roles == {"timestamp", "current_a", "phase"}

CandidatesOf(role) ==
  CASE role = "timestamp" -> TS_CANDIDATES
    [] role = "current_a" -> CURRENT_CANDIDATES
    [] role = "phase" -> PHASE_CANDIDATES

\* `_find_col(df, X) or _best_match(df, X)` for one role, on a drawn header
ApplyResolve ==
  /\ pc = "apply"
  /\ \E cols \in DetectHeaders, role \in Roles :
       probe' = <<Applied("resolve", [cols |-> cols, role |-> role],
                          ResolveRole(cols, CandidatesOf(role)))>>
  /\ pc' = "applied"
  /\ log' = log
  /\ Unused

\* autodetect_map(df) on a drawn header
ApplyDetect ==
  /\ pc = "apply"
  /\ \E cols \in DetectHeaders :
       probe' = <<Applied("autodetect_map", cols, autodetect_map(cols))>>
  /\ pc' = "applied"
  /\ log' = log
  /\ Unused

\* the most readings of a table drawn for normalize_timeseries
MaxReadings == 3

\* instants within one bucket, in adjacent buckets and two buckets apart
ReadingInstants == {0, OneHz \div 2, OneHz, 3 * OneHz}

Readings ==
  {Row(t, ph, c) : t \in ReadingInstants, ph \in {<<"A">>, <<"B">>}, c \in {<<1, 1>>, <<4, 1>>}}

\* tables as load_csv returns them: not empty, sorted by timestamp
ReadingTables ==
  UNION {{s \in [1 .. n -> Readings] :
            \A i \in 1 .. n - 1 : s[i].timestamp <= s[i + 1].timestamp} :
           n \in 1 .. MaxReadings}

\* normalize_timeseries(df) on a drawn table
ApplyNormalize ==
  /\ pc = "apply"
  /\ \E table \in ReadingTables :
       probe' = <<Applied("normalize_timeseries", table, normalize_timeseries(table))>>
  /\ pc' = "applied"
  /\ log' = log
  /\ Unused

ApplyNext ==
  \/ ApplyNormalize
  \/ ApplyLoad
  \/ ApplyRate
  \/ ApplyValid
  \/ ApplyOrder
  \/ ApplyResolve
  \/ ApplyDetect

SpecApply == ApplyInit /\ [][ApplyNext]_vars

-----------------------------------------------------------------------------
(* Properties of load_csv, under SpecApply                                  *)

\* some candidate is, case-insensitively, a column name or a part of one
Recognized(cols, candidates) ==
  \E i \in DOMAIN cols, j \in DOMAIN candidates :
    Contains(Lower(Strip(candidates[j])), Lower(Strip(cols[i])))

\* load_csv ran in auto mode and did not detect a wide format
AutoWithoutWide ==
  /\ AppliedIs("load_csv")
  /\ probe[1].args.map_name = "auto"
  /\ \A k \in DOMAIN log : log[k] # "Detected wide per-phase current columns"

\* C14: in auto mode without a wide-format match load_csv fails with
\* AutoDetectFailed, carrying the columns found, exactly when no column is
\* recognized as the timestamp or none as the current; an unrecognized phase
\* column never fails the load, and every row then carries the configured
\* default phase label.
C14_PhaseDefaultsToConfiguredLabel ==
  AutoWithoutWide =>
    /\ (~probe[1].out.ok /\ probe[1].out.err = "AutoDetectFailed")
       <=> (\/ ~Recognized(probe[1].args.file.cols, TS_CANDIDATES)
            \/ ~Recognized(probe[1].args.file.cols, CURRENT_CANDIDATES))
    /\ (~probe[1].out.ok /\ probe[1].out.err = "AutoDetectFailed")
       => probe[1].out.columns = probe[1].args.file.cols
    /\ (probe[1].out.ok /\ ~Recognized(probe[1].args.file.cols, PHASE_CANDIDATES))
       => \A k \in DOMAIN probe[1].out.rows :
            probe[1].out.rows[k].phase = probe[1].args.default_phase

\* the wide patterns of phase k of WIDE_CURRENT_PATTERNS that name a column
WideColumnsOf(cols, k) ==
  {i \in DOMAIN cols :
     \E j \in DOMAIN WIDE_CURRENT_PATTERNS[k][2] :
       Lower(Strip(cols[i])) = WIDE_CURRENT_PATTERNS[k][2][j]}

\* the phases A/B/C with a per-phase current column
WidePhases(cols) == {k \in DOMAIN WIDE_CURRENT_PATTERNS : WideColumnsOf(cols, k) # {}}

\* the columns recognized as the timestamp
StampColumns(cols) ==
  {i \in DOMAIN cols :
     \E j \in DOMAIN TS_CANDIDATES :
       Contains(Lower(Strip(TS_CANDIDATES[j])), Lower(Strip(cols[i])))}

\* the (input row, detected phase) pairs whose timestamp and current are valid
ValidPairs(file) ==
  {<<i, k>> \in (DOMAIN file.rows) \X WidePhases(file.cols) :
     /\ \E t \in StampColumns(file.cols) : file.rows[i][t].k = "time"
     /\ \E c \in WideColumnsOf(file.cols, k) : file.rows[i][c].k = "amps"}

\* load_csv reported the wide-to-long conversion
WideTaken == \E k \in DOMAIN log : log[k] = "Detected wide per-phase current columns"

\* C20: in auto mode load_csv takes the wide-to-long pivot exactly when the
\* file has no phase column, a timestamp column resolves and at least two of
\* the phases A/B/C have a per-phase current column; the pivot then replaces
\* the column-name scoring and returns one row for each (input row, detected
\* phase) whose timestamp and current are both valid.
C20_WidePivotOnlyWithoutPhaseColumn ==
  (AppliedIs("load_csv") /\ probe[1].args.map_name = "auto") =>
    /\ WideTaken <=>
         /\ ~Recognized(probe[1].args.file.cols, PHASE_CANDIDATES)
         /\ StampColumns(probe[1].args.file.cols) # {}
         /\ Cardinality(WidePhases(probe[1].args.file.cols)) >= 2
    /\ WideTaken =>
         /\ probe[1].out.ok
         /\ \A k \in DOMAIN log : log[k] # "Auto-detected columns"
         /\ Len(probe[1].out.rows) = Cardinality(ValidPairs(probe[1].args.file))
         /\ \A p \in ValidPairs(probe[1].args.file) :
              \E r \in DOMAIN probe[1].out.rows :
                /\ probe[1].out.rows[r].phase = Upper(WIDE_CURRENT_PATTERNS[p[2]][1])
                /\ probe[1].out.rows[r].timestamp = (p[1] - 1) * OneHz

-----------------------------------------------------------------------------
(* Properties of the rate estimate and the validity rule, under SpecApply   *)

\* C16: fft_is_valid(sample_rate_hz, fundamental_hz) is true exactly when the
\* rate is at least 20 times the fundamental, the rate equal to 20 times the
\* fundamental included; once true for a rate it is true for every higher
\* rate at the same fundamental.
C16_ValidFromTwentyTimesFundamental ==
  AppliedIs("fft_is_valid") =>
    /\ probe[1].out <=> probe[1].args[1] >= 20 * probe[1].args[2]
    /\ probe[1].args[1] = 20 * probe[1].args[2] => probe[1].out
    /\ probe[1].out =>
         \A rate \in Rates : rate >= probe[1].args[1] => fft_is_valid(rate, probe[1].args[2])
    /\ ~probe[1].out =>
         \A rate \in Rates : rate <= probe[1].args[1] => ~fft_is_valid(rate, probe[1].args[2])

\* C16 witness: 1200 Hz against a fundamental of 60 Hz
C16_ValidAtBoundary ==
  /\ AppliedIs("fft_is_valid")
  /\ probe[1].args = <<1200 * 1000, 60 * 1000>>
  /\ probe[1].out = TRUE

\* xs in nondecreasing order
Ordered(xs) ==
  CHOOSE s \in [DOMAIN xs -> {xs[i] : i \in DOMAIN xs}] :
    /\ \A i \in DOMAIN s : i > 1 => s[i - 1] <= s[i]
    /\ \A v \in {xs[i] : i \in DOMAIN xs} :
         Cardinality({i \in DOMAIN s : s[i] = v}) = Cardinality({i \in DOMAIN xs : xs[i] = v})

\* the differences of consecutive values
Steps(s) == [i \in 1 .. (Len(s) - 1) |-> s[i + 1] - s[i]]

\* twice the middle value of an ordered sequence
TwiceMiddle(s) ==
  IF Len(s) % 2 = 1 THEN 2 * s[(Len(s) + 1) \div 2]
  ELSE s[Len(s) \div 2] + s[(Len(s) \div 2) + 1]

\* rate is the whole number of milli-hertz in 1 / (median2 / 2 ticks)
IsReciprocal(rate, median2) ==
  /\ rate * median2 <= 2 * 1000 * TicksPerSecond
  /\ (rate + 1) * median2 > 2 * 1000 * TicksPerSecond

\* what C17 says of a table whose instants are ts
RateAsSpecified(rate, ts) ==
  /\ rate >= 0
  /\ Len(ts) < 3 => rate = 0
  /\ Len(ts) >= 3 =>
       IF TwiceMiddle(Ordered(Steps(Ordered(ts)))) <= 0
       THEN rate = 0
       ELSE IsReciprocal(rate, TwiceMiddle(Ordered(Steps(Ordered(ts)))))

\* C17: estimate_sample_rate returns 0 for fewer than 3 timestamps and when
\* the median difference of the sorted timestamps is not positive, and the
\* reciprocal of that median otherwise; it is never negative.
C17_RateIsReciprocalOfMedianStep ==
  AppliedIs("estimate_sample_rate") =>
    RateAsSpecified(probe[1].out,
                    [i \in DOMAIN probe[1].args |-> probe[1].args[i].timestamp])

\* C17 witness: unsorted instants 1 s, 0 s, 0.5 s, 2 s: steps of 0.5 s, 0.5 s
\* and 1 s, a median of 0.5 s and a rate of 2 Hz
C17_TwoHertzFromUnsortedStamps ==
  /\ AppliedIs("estimate_sample_rate")
  /\ [i \in DOMAIN probe[1].args |-> probe[1].args[i].timestamp]
       = <<OneHz, 0, OneHz \div 2, 2 * OneHz>>
  /\ probe[1].out = 2000

-----------------------------------------------------------------------------
(* Properties of _safe_phase_order, under SpecApply                         *)

NamedPhases == << <<"A">>, <<"B">>, <<"C">>, <<"N">> >>

\* the place of a label among the named phases, 99 for any other label
PlaceOf(label) ==
  IF \E k \in DOMAIN NamedPhases : NamedPhases[k] = label
  THEN CHOOSE k \in DOMAIN NamedPhases : NamedPhases[k] = label
  ELSE 99

\* out holds the labels of `labels`, each once
IsPermutation(out, labels) ==
  /\ Len(out) = Len(labels)
  /\ \A i \in DOMAIN labels : \E j \in DOMAIN out : out[j] = labels[i]

\* every ordering of a list of distinct labels
Orderings(labels) ==
  {s \in [DOMAIN labels -> {labels[i] : i \in DOMAIN labels}] :
     \A i, j \in DOMAIN s : s[i] = s[j] => i = j}

\* C19, as stated: the result is a permutation of the labels, the same for
\* every ordering of them, with A, B, C, N first in that order and every
\* other label after them in lexical order.
C19_NamedPhasesFirstThenLexical ==
  AppliedIs("_safe_phase_order") =>
    /\ IsPermutation(probe[1].out, probe[1].args)
    /\ \A s \in Orderings(probe[1].args) : _safe_phase_order(s) = probe[1].out
    /\ \A i, j \in DOMAIN probe[1].out :
         i < j =>
           \/ PlaceOf(probe[1].out[i]) < PlaceOf(probe[1].out[j])
           \/ /\ PlaceOf(probe[1].out[i]) = 99
              /\ PlaceOf(probe[1].out[j]) = 99
              /\ StrLess(probe[1].out[i], probe[1].out[j])

\* C19, amended: the place of a label is that of its upper-case form, so a, b,
\* c, n rank with A, B, C, N; labels of the same place are in lexical order.
C19_PhaseOrderIgnoresCase ==
  AppliedIs("_safe_phase_order") =>
    /\ IsPermutation(probe[1].out, probe[1].args)
    /\ \A s \in Orderings(probe[1].args) : _safe_phase_order(s) = probe[1].out
    /\ \A i, j \in DOMAIN probe[1].out :
         i < j =>
           \/ PlaceOf(Upper(probe[1].out[i])) < PlaceOf(Upper(probe[1].out[j]))
           \/ /\ PlaceOf(Upper(probe[1].out[i])) = PlaceOf(Upper(probe[1].out[j]))
              /\ StrLess(probe[1].out[i], probe[1].out[j])

\* C19 witness: L2, n, B are ordered B, n, L2
C19_LowerCaseRanksWithNamed ==
  /\ AppliedIs("_safe_phase_order")
  /\ probe[1].args = << <<"L","2">>, <<"n">>, <<"B">> >>
  /\ probe[1].out = << <<"B">>, <<"n">>, <<"L","2">> >>

-----------------------------------------------------------------------------
(* Properties of column resolution, under SpecApply                        *)

\* the candidates a name equals, and those it only contains, ignoring case
EqualTo(name, candidates) ==
  {j \in DOMAIN candidates : Lower(name) = Lower(candidates[j])}

PartOf(name, candidates) ==
  {j \in DOMAIN candidates :
     /\ Lower(name) # Lower(candidates[j])
     /\ Contains(Lower(candidates[j]), Lower(name))}

\* 10 for every candidate the name equals, 3 for every one it contains
SummedScore(name, candidates) ==
  10 * Cardinality(EqualTo(name, candidates)) + 3 * Cardinality(PartOf(name, candidates))

ResolvedAsClaimed(cols, candidates, out) ==
  IF \E i \in DOMAIN cols : EqualTo(cols[i], candidates) # {}
  THEN \E i \in DOMAIN cols : out = cols[i] /\ EqualTo(cols[i], candidates) # {}
  ELSE IF \A i \in DOMAIN cols : SummedScore(cols[i], candidates) = 0
  THEN out = None
  ELSE \E i \in DOMAIN cols :
         /\ out = cols[i]
         /\ \A j \in DOMAIN cols :
              SummedScore(cols[j], candidates) <= SummedScore(cols[i], candidates)

C27_RolesResolveToDistinctColumns ==
  (AppliedIs("autodetect_map") /\ probe[1].out.ok) =>
    /\ probe[1].out.cmap.timestamp # probe[1].out.cmap.current_a
    /\ probe[1].out.cmap.phase # None =>
         /\ probe[1].out.cmap.phase # probe[1].out.cmap.timestamp
         /\ probe[1].out.cmap.phase # probe[1].out.cmap.current_a

-----------------------------------------------------------------------------
(* Properties of normalize_timeseries, under SpecApply                     *)

\* the buckets of a phase group that hold readings
BucketsOf(g) == {BucketOf(g[i].timestamp) : i \in DOMAIN g}

FirstBucket(g) == CHOOSE b \in BucketsOf(g) : \A c \in BucketsOf(g) : b <= c

LastBucket(g) == CHOOSE b \in BucketsOf(g) : \A c \in BucketsOf(g) : c <= b

\* the currents read in bucket b
CurrentsIn(g, b) ==
  LET inb == SelectSeq(g, LAMBDA r : BucketOf(r.timestamp) = b)
  IN  [i \in DOMAIN inb |-> inb[i].current_a]

\* v is the mean of the readings of bucket b: n * v is their sum
IsMeanOf(v, g, b) == FracScale(v, Len(CurrentsIn(g, b)), 1) = FracSum(CurrentsIn(g, b))

\* the nearest buckets with readings below and above b
Below(g, b) == CHOOSE l \in BucketsOf(g) : l < b /\ \A c \in BucketsOf(g) : c < b => c <= l

Above(g, b) == CHOOSE r \in BucketsOf(g) : r > b /\ \A c \in BucketsOf(g) : c > b => r <= c

\* v lies on the line from (l, vl) to (r, vr) at b
OnLine(v, b, l, vl, r, vr) ==
  FracScale(v, r - l, 1) = FracAdd(FracScale(vl, r - b, 1), FracScale(vr, b - l, 1))

\* the output rows `out` of one phase are the grid of its readings g
GridOf(out, g, lo, hi) ==
  /\ Len(out) = hi - lo + 1
  /\ \A k \in DOMAIN out : out[k].timestamp = (lo + k - 1) * BucketTicks
  /\ \A k \in 1 .. Len(out) - 1 : out[k + 1].timestamp - out[k].timestamp = BucketTicks
  /\ \A k \in DOMAIN out :
       /\ out[k].current_a \in Int \X (Nat \ {0})
       /\ IF lo + k - 1 \in BucketsOf(g)
          THEN IsMeanOf(out[k].current_a, g, lo + k - 1)
          ELSE OnLine(out[k].current_a, lo + k - 1,
                      Below(g, lo + k - 1), out[Below(g, lo + k - 1) - lo + 1].current_a,
                      Above(g, lo + k - 1), out[Above(g, lo + k - 1) - lo + 1].current_a)

\* C22: for every phase with a reading, normalize_timeseries outputs exactly
\* one row for every grid bucket from the bucket of the phase's earliest
\* reading to that of its latest, consecutive grid timestamps differ by the
\* resample width, and no current is missing: the mean of the readings of a
\* bucket that holds some, the linear interpolation between the nearest
\* buckets with readings otherwise.
C22_OneRowPerBucketInterpolated ==
  AppliedIs("normalize_timeseries") =>
    /\ probe[1].out.ok
    /\ PhasesOf(probe[1].out.rows) = PhasesOf(probe[1].args)
    /\ \A ph \in PhasesOf(probe[1].args) :
         GridOf(RowsOfPhase(probe[1].out.rows, ph), RowsOfPhase(probe[1].args, ph),
                FirstBucket(RowsOfPhase(probe[1].args, ph)),
                LastBucket(RowsOfPhase(probe[1].args, ph)))

\* readings of 1 A at 0 s and 4 A at 3 s: two empty buckets between them
C22_TwoEmptyBucketsOnTheLine ==
  /\ AppliedIs("normalize_timeseries")
  /\ probe[1].args = <<Row(0, <<"A">>, <<1, 1>>), Row(3 * OneHz, <<"A">>, <<4, 1>>)>>
  /\ probe[1].out.rows = <<Row(0, <<"A">>, <<1, 1>>), Row(OneHz, <<"A">>, <<2, 1>>),
                           Row(2 * OneHz, <<"A">>, <<3, 1>>), Row(3 * OneHz, <<"A">>, <<4, 1>>)>>

-----------------------------------------------------------------------------
(* Properties of the metrics, under SpecScore.  The samples and amplitudes *)
(* drawn are 0 or at least 1/2 in size, so a fundamental, a mean or an RMS *)
(* is <= 1e-12 exactly when it is <= 0.                                     *)

\* the sum of the samples of a signal, as a fraction
SignalSum(sig) == FracSum(sig)

\* the RMS of a signal is 0: every sample is 0
ZeroRms(sig) == \A i \in DOMAIN sig : sig[i][1] = 0

\* the three spectrum metrics are 0 when the fundamental is not above 0, and
\* crest factor is 0 on an empty signal and on one of RMS 0; every metric is
\* a finite number
GuardsOtherThanMean ==
  /\ AppliedIs("harmonic_metrics") =>
       /\ probe[1].out.thd \in Nat
       /\ probe[1].out.triplen \in Nat
       /\ probe[1].out.fifth_pct \in Nat
       /\ Get(probe[1].args, 1) <= 0 =>
            /\ probe[1].out.thd = 0
            /\ probe[1].out.triplen = 0
            /\ probe[1].out.fifth_pct = 0
  /\ AppliedIs("signal_metrics") =>
       /\ probe[1].out.crest \in Nat
       /\ probe[1].out.variability \in Nat
       /\ (probe[1].args = <<>> \/ ZeroRms(probe[1].args)) => probe[1].out.crest = 0

C28_TriplenAndFifthBelowThd ==
  AppliedIs("harmonic_metrics") =>
    /\ \A h \in DOMAIN probe[1].args : h > 0
    /\ probe[1].out.triplen <= probe[1].out.thd
    /\ probe[1].out.fifth_pct <= probe[1].out.thd
    /\ probe[1].out.triplen >= TRIPLEN_CRITICAL =>
         /\ probe[1].out.thd >= THD_CRITICAL
         /\ probe[1].out.risk.score_0_100 >= 80

\* a third harmonic of 30 % and nothing else: triplen and THD both critical,
\* the score exactly 80
C28_CriticalTriplenScoresEighty ==
  /\ AppliedIs("harmonic_metrics")
  /\ probe[1].args = Spectrum(20, 6, 0, 0)
  /\ probe[1].out.triplen = 300
  /\ probe[1].out.thd = 300
  /\ probe[1].out.risk.score_0_100 = 80

-----------------------------------------------------------------------------
(* Properties of findings and recommendations, under SpecScore             *)

\* the metric and the level a finding, a top-risk tag or a recommendation is
\* about
AboutOf(text) ==
  CASE text \in {"THD is critical", "High THD -> overheating/nuisance trips",
                 "Priority: Perform a power quality audit"}
         -> <<"thd", "critical">>
    [] text \in {"THD is elevated", "Elevated THD trend", "Monitor THD and thermal loading"}
         -> <<"thd", "warn">>
    [] text \in {"Triplen index is critical", "Triplen harmonics -> neutral overheating risk",
                 "Priority: Evaluate active harmonic filtering focused on triplen mitigation"}
         -> <<"triplen", "critical">>
    [] text \in {"Triplen index is high", "Triplen harmonics trending high",
                 "Trend triplen harmonics"}
         -> <<"triplen", "warn">>
    [] text \in {"5th harmonic is critical", "5th harmonic -> capacitor/UPS stress",
                 "Priority: Evaluate detuned capacitor banks / filtering tuned for 5th harmonic"}
         -> <<"fifth", "critical">>
    [] text \in {"5th harmonic is elevated", "5th harmonic elevated",
                 "Inspect capacitor bank health and reactive compensation settings"}
         -> <<"fifth", "warn">>
    [] text \in {"Crest factor is critical", "High crest factor -> pulsed non-linear load risk",
                 "Priority: Investigate non-linear load contributions"}
         -> <<"crest", "critical">>
    [] text \in {"Crest factor is elevated", "Elevated crest factor trend",
                 "Crest factor elevated; review load mix and UPS operating mode"}
         -> <<"crest", "warn">>
    [] text \in {"Current variability is critical",
                 "High variability -> harmonic risk signature",
                 "Priority: Current variability indicates pulsed load behavior"}
         -> <<"variability", "critical">>
    [] text \in {"Current variability is elevated", "Variability trending high",
                 "Trend current variability over time"}
         -> <<"variability", "warn">>
    [] OTHER -> <<"none", "generic">>

\* the warn threshold of a metric
WarnOf(metric) ==
  CASE metric = "thd" -> THD_WARN
    [] metric = "triplen" -> TRIPLEN_WARN
    [] metric = "fifth" -> FIFTH_WARN
    [] metric = "crest" -> CREST_WARN
    [] metric = "variability" -> VARIABILITY_WARN

\* the metrics of `order` whose value is at or above the warn threshold, in
\* that order
RECURSIVE AtOrAboveWarn(_, _, _)
AtOrAboveWarn(order, values, i) ==
  IF i > Len(order) THEN <<>>
  ELSE (IF values[i] >= WarnOf(order[i]) THEN <<order[i]>> ELSE <<>>)
       \o AtOrAboveWarn(order, values, i + 1)

\* findings and top risks name exactly the metrics `flagged`, in order
OnePerFlagged(risk, flagged) ==
  /\ Len(risk.findings) = Len(flagged)
  /\ Len(risk.top_risks) = Len(flagged)
  /\ Len(risk.top_risks) <= 3
  /\ \A k \in DOMAIN flagged :
       /\ AboutOf(risk.findings[k].msg)[1] = flagged[k]
       /\ AboutOf(risk.top_risks[k])[1] = flagged[k]
       /\ AboutOf(risk.top_risks[k])[2] = AboutOf(risk.findings[k].msg)[2]

\* C24: for both scorers the number of findings is the number of metrics at
\* or above their warn threshold, there is one top-risk tag per such metric,
\* findings and top risks are in evaluation order (THD, triplen, 5th; crest,
\* variability), and there are never more than 3 top risks.
C24_OneFindingPerFlaggedMetric ==
  /\ AppliedIs("score_risk_fft") =>
       OnePerFlagged(probe[1].out,
                     AtOrAboveWarn(<<"thd", "triplen", "fifth">>, probe[1].args, 1))
  /\ AppliedIs("score_risk_trend") =>
       OnePerFlagged(probe[1].out,
                     AtOrAboveWarn(<<"crest", "variability">>, probe[1].args, 1))

\* THD below warn, triplen critical, 5th at warn: two findings, triplen first
C24_TwoOfThreeFlagged ==
  /\ AppliedIs("score_risk_fft")
  /\ probe[1].args = <<149, 300, 120>>
  /\ Len(probe[1].out.findings) = 2
  /\ probe[1].out.top_risks = <<"Triplen harmonics -> neutral overheating risk",
                                "5th harmonic elevated">>

\* the recommendation levels that answer the findings, metric by metric in
\* `order`
RECURSIVE AnswersTo(_, _, _)
AnswersTo(found, order, i) ==
  IF i > Len(order) THEN <<>>
  ELSE (IF <<order[i], "critical">> \in found THEN <<<<order[i], "critical">>>>
        ELSE IF <<order[i], "warn">> \in found THEN <<<<order[i], "warn">>>>
        ELSE <<>>)
       \o AnswersTo(found, order, i + 1)

\* the recommendations are the answers to the findings, or the generic one
\* alone when there is no finding
RecsAnswer(recs, findings, order) ==
  /\ (findings = <<>>) <=> (\E k \in DOMAIN recs : AboutOf(recs[k])[2] = "generic")
  /\ findings = <<>> => Len(recs) = 1
  /\ findings # <<>> =>
       [k \in DOMAIN recs |-> AboutOf(recs[k])]
         = AnswersTo({AboutOf(findings[k].msg) : k \in DOMAIN findings}, order, 1)

\* C25: recommendations_fft emits a priority (watch) recommendation for a
\* metric exactly when score_risk_fft emits a critical (warn) finding for it,
\* in the order triplen, 5th harmonic, THD; recommendations_trend likewise in
\* the order crest, variability; the generic recommendation is returned
\* exactly when the scorer returns no finding.
C25_RecommendationsFollowFindings ==
  /\ AppliedIs("advise_fft") =>
       RecsAnswer(probe[1].out.recs, probe[1].out.risk.findings,
                  <<"triplen", "fifth", "thd">>)
  /\ AppliedIs("advise_trend") =>
       RecsAnswer(probe[1].out.recs, probe[1].out.risk.findings, <<"crest", "variability">>)

\* every metric exactly at its warn threshold: three watch recommendations
C25_AllAtWarnThreshold ==
  /\ AppliedIs("advise_fft")
  /\ probe[1].args = <<150, 200, 120>>
  /\ Len(probe[1].out.risk.findings) = 3
  /\ probe[1].out.recs = <<"Trend triplen harmonics",
                           "Inspect capacitor bank health and reactive compensation settings",
                           "Monitor THD and thermal loading">>

\* the place of the first occurrence of x in items
FirstAt(items, x) ==
  CHOOSE i \in DOMAIN items : items[i] = x /\ \A j \in 1 .. i - 1 : items[j] # x

\* out holds every distinct item of items once, ordered by first occurrence
IsDedupeOf(out, items) ==
  /\ {out[k] : k \in DOMAIN out} = {items[i] : i \in DOMAIN items}
  /\ \A j, k \in DOMAIN out : j < k => FirstAt(items, out[j]) < FirstAt(items, out[k])

\* C26: dedupe_preserve_order(items) is a duplicate-free subsequence of items
\* holding every distinct element at the relative position of its first
\* occurrence; applying it twice gives the same list; and the list run_pipeline
\* hands on is the dedupe of the per-phase recommendations concatenated in
\* phase order.
C26_DedupeKeepsFirstOccurrences ==
  AppliedIs("collect_recs") =>
    /\ probe[1].out.recs_all = ConcatAll(probe[1].out.per_phase)
    /\ IsDedupeOf(probe[1].out.deduped, probe[1].out.recs_all)
    /\ probe[1].out.twice = probe[1].out.deduped
    /\ probe[1].out.handed = probe[1].out.deduped

\* two phases whose recommendations overlap: the second phase adds one
C26_SecondPhaseAddsOne ==
  /\ AppliedIs("collect_recs")
  /\ probe[1].out.recs_all = <<"Trend triplen harmonics", "Monitor THD and thermal loading",
                               "Trend triplen harmonics",
                               "Priority: Perform a power quality audit">>
  /\ probe[1].out.handed = <<"Trend triplen harmonics", "Monitor THD and thermal loading",
                             "Priority: Perform a power quality audit">>

-----------------------------------------------------------------------------
(* Properties of per-phase scores in run_pipeline, under Spec              *)

\* the least and the greatest of a non-empty list of scores
LeastOf(scores) == CHOOSE x \in {scores[k] : k \in DOMAIN scores} :
                     \A k \in DOMAIN scores : x <= scores[k]

GreatestOf(scores) == CHOOSE x \in {scores[k] : k \in DOMAIN scores} :
                        \A k \in DOMAIN scores : scores[k] <= x

\* C29: every per-phase score is at least 23 in waveform mode and at least 25
\* in trend mode, so the facility score is 0 exactly when no phase could be
\* scored; when a phase was scored, the facility score lies between the least
\* and the greatest per-phase score.
C29_FacilityScoreWithinPhaseScores ==
  /\ \A k \in DOMAIN per_phase_scores :
       per_phase_scores[k] >= (IF fft_ok THEN 23 ELSE 25)
  /\ AfterLoop =>
       /\ (facility_score = 0)
            <=> (\A p \in PhasesOf(df) : Len(SignalOf(df, p)) < MinPhaseSamples)
       /\ per_phase_scores # <<>> =>
            /\ LeastOf(per_phase_scores) <= facility_score
            /\ facility_score <= GreatestOf(per_phase_scores)

\* two phases with different scores, the facility score strictly between
C29_FacilityBetweenTwoPhases ==
  /\ AfterLoop
  /\ Len(per_phase_scores) = 2
  /\ LeastOf(per_phase_scores) < facility_score
  /\ facility_score < GreatestOf(per_phase_scores)

\* the phases of at least 8 and fewer than 32 samples
BriefPhases ==
  {p \in PhasesOf(df) :
     Len(SignalOf(df, p)) >= MinPhaseSamples /\ Len(SignalOf(df, p)) < MinFftSamples}

\* the place of a scored phase among the scored phases
ScoredAt(p) == CHOOSE k \in DOMAIN ScoredPhases : ScoredPhases[k] = p

\* C30: in waveform mode a phase with at least 8 but fewer than 32 samples is
\* not skipped: every configured harmonic has amplitude 0, the phase is
\* scored exactly 23 (band Safe) with no finding and no top risk, and that
\* score is part of the facility mean.
C30_BriefPhaseScoresTwentyThree ==
  (AfterLoop /\ fft_ok) =>
    /\ \A p \in BriefPhases :
         /\ \A k \in DOMAIN harmonics : harms_by_phase[p][harmonics[k]] = 0
         /\ \E k \in DOMAIN summary_lines : summary_lines[k] = Line("phase", p, "Safe", 23)
         /\ \A k \in DOMAIN findings_all : findings_all[k].phase # p
         /\ \A k \in DOMAIN top_risks_all : top_risks_all[k].phase # p
         /\ \E k \in DOMAIN ScoredPhases : ScoredPhases[k] = p
         /\ Len(per_phase_scores) = Len(ScoredPhases)
         /\ per_phase_scores[ScoredAt(p)] = 23
    /\ NearestTiesToEven(facility_score, SumSeq(per_phase_scores), Len(per_phase_scores))

\* a single phase of 9 readings, analysed in waveform mode
C30_NineReadingsInWaveformMode ==
  /\ AfterLoop
  /\ fft_ok
  /\ csv_path = Path("single", OneHz, 9, 0, "ripple", "flat", FALSE)
  /\ per_phase_scores = <<23>>
  /\ facility_score = 23
  /\ band = "Safe"

=============================================================================
